---- MODULE Spec2Model ----
(***************************************************************************)
(* Rep counting, staging and form scoring of the exercise trackers.        *)
(*                                                                         *)
(* One behaviour is one tracking session: one tracker object (variable     *)
(* tracker, a record holding the object's fields and its class), fed one   *)
(* frame per step.  A frame is given by the measurements the code derives  *)
(* from the landmarks (the values returned by calculate_angle, the pixel   *)
(* widths, the landmark distances), drawn from small sets.                 *)
(*                                                                         *)
(* Clock readings (time.time()) are integer ticks, TicksPerSec ticks to    *)
(* the second.  A mean of integers is kept as an exact fraction.           *)
(***************************************************************************)
EXTENDS Integers, Sequences, FiniteSets, TLC

VARIABLES tracker, now, ret, obs

vars == <<tracker, now, ret, obs>>

(***************************************************************************)
(* Bounds of the model.                                                    *)
(***************************************************************************)
\* clock ticks per second
TicksPerSec == 2
\* last clock reading of a session
MaxTime == 7
\* largest clock advance between two frames, in ticks
MaxDt == 3
\* a session ends once a counter, or the number of observed signal
\* cycles, reaches MaxReps
MaxReps == 2

(***************************************************************************)
(* Exact arithmetic on fractions num/den, den > 0.                         *)
(***************************************************************************)
RECURSIVE GCD(_, _)
GCD(a, b) == IF b = 0 THEN a ELSE GCD(b, a % b)

Abs(x) == IF x < 0 THEN -x ELSE x

Frac(n, d) ==
    LET g == GCD(Abs(n), d)
    IN  IF g = 0 THEN [num |-> 0, den |-> 1]
        ELSE [num |-> n \div g, den |-> d \div g]

\* q > n, q < n, q <= n for a fraction q and an integer n
FracGt(q, n) == q.num > n * q.den
FracLt(q, n) == q.num < n * q.den
FracLe(q, n) == q.num <= n * q.den
\* a < b for two fractions
FracLess(a, b) == a.num * b.den < b.num * a.den

RECURSIVE SeqSum(_)
SeqSum(s) == IF s = <<>> THEN 0 ELSE Head(s) + SeqSum(Tail(s))

Max2(a, b) == IF a > b THEN a ELSE b
Min2(a, b) == IF a < b THEN a ELSE b

(***************************************************************************)
(* The value a call returned, and what the observer of a session records.  *)
(***************************************************************************)
NoReturn == [call |-> "none"]

\* the tracker's rep counter (the right arm's for ChairYoga, the index
\* finger's for FingerToThumb)
Count(t) ==
    IF t.cls = "ChairYoga" THEN t.counter_right
    ELSE IF t.cls = "FingerToThumb" THEN t.counters["Index"]
    ELSE IF t.cls = "Backend" THEN 0
    ELSE t.counter

\* the largest of the tracker's counters
MaxCount(t) ==
    IF t.cls = "ChairYoga" THEN Max2(t.counter_right, t.counter_left)
    ELSE IF t.cls = "FingerToThumb"
    THEN CHOOSE m \in {t.counters[f] : f \in DOMAIN t.counters} :
            \A f \in DOMAIN t.counters : t.counters[f] <= m
    ELSE Count(t)

\* the observer: frame is the kind of the last frame and band the band its
\* signal lay in, phase/cycles follow the signal through its cycles,
\* rep_times are the clock readings of the frames at which the counter rose,
\* spaced says that every cycle so far completed more than one second after
\* the previous counted rep, leg is the leg of the single-squat scenario
NewObs(c) ==
    [frame |-> "none", band |-> "none",
     phase |-> IF c = "ImprovedSquatTracker" THEN "none" ELSE "ready",
     cycles |-> 0, rep_times |-> <<>>, spaced |-> TRUE, leg |-> "none"]

\* the band of a signal x between the thresholds lo < hi: "gap" strictly
\* between them, "edge" on one of them
Band(x, lo, hi) ==
    IF x > hi THEN "high" ELSE IF x < lo THEN "low"
    ELSE IF x > lo /\ x < hi THEN "gap" ELSE "edge"

FracBand(q, lo, hi) ==
    IF FracGt(q, hi) THEN "high" ELSE IF FracLt(q, lo) THEN "low"
    ELSE IF FracGt(q, lo) /\ FracLt(q, hi) THEN "gap" ELSE "edge"

\* the band of a tip distance d: the (index) finger tip on the thumb tip,
\* or apart from it
TipBand(d, threshold) == IF d < threshold THEN "touch" ELSE "apart"

\* the signal's phase after a sample: "high" above the upper threshold,
\* "low" below the lower one, unchanged in between.  A squat cycle is
\* up->down->up: from "none" the signal has to be high before a low counts.
SigPhase(phase, band) ==
    IF band = "high" THEN "high"
    ELSE IF band = "low" /\ phase # "none" THEN "low"
    ELSE phase

\* a cycle completes when the signal, having been low, is high again
CycleDone(phase, band) == phase = "low" /\ band = "high"

Observe(o, old, new, t, kind, band) ==
    LET done == CycleDone(o.phase, band)
        late == o.rep_times = <<>> \/
                t - o.rep_times[Len(o.rep_times)] > TicksPerSec
    IN  [frame     |-> kind,
         band      |-> band,
         phase     |-> SigPhase(o.phase, band),
         cycles    |-> IF done THEN o.cycles + 1 ELSE o.cycles,
         rep_times |-> IF Count(new) > Count(old)
                       THEN Append(o.rep_times, t) ELSE o.rep_times,
         spaced    |-> o.spaced /\ (done => late),
         leg       |-> o.leg]

\* a session goes on until a counter or the observed cycles reach MaxReps
Running == MaxCount(tracker) < MaxReps /\ obs.cycles < MaxReps

(***************************************************************************)
(* ImprovedSquatTracker (exercises/improved_squat_tracker.py)              *)
(***************************************************************************)
history_size == 5
DEPTH_THRESHOLD == 90
EXCELLENT_DEPTH == 70
UP_THRESHOLD == 160

\* The statistics fields min_angle_reached and max_depth_reached are left
\* out: analyze_squat_form only records them, they decide nothing.
ImprovedSquatTracker_init ==
    [cls |-> "ImprovedSquatTracker",
     counter |-> 0, stage |-> "up", previous_stage |-> "up",
     form_score |-> 100, warnings |-> <<>>,
     rep_in_progress |-> FALSE, angle_history |-> <<>>]

\* the buffer dropping the newest sample beyond the window
push_history_keep_oldest(history, angle) ==
    LET h == Append(history, angle)
    IN  IF Len(h) > history_size THEN SubSeq(h, 1, history_size) ELSE h

\* the buffer never dropping a sample
push_history_unbounded(history, angle) == Append(history, angle)

\* the buffer after appending angle and dropping the oldest beyond the window
push_history(history, angle) ==
    LET h == Append(history, angle)
    IN  IF Len(h) > history_size THEN Tail(h) ELSE h

\* the sum divided by the window size instead of the buffer's length
smooth_angle_fixed_divisor(history, angle) ==
    LET h == push_history(history, angle)
    IN  [history |-> h, value |-> Frac(SeqSum(h), history_size)]

\* smooth_angle: the new buffer and the moving average over it
smooth_angle(history, angle) ==
    LET h == push_history(history, angle)
    IN  [history |-> h, value |-> Frac(SeqSum(h), Len(h))]

RepCompletedMsg(n) == "Rep " \o ToString(n) \o " completed!"

\* lines 105-122: stage and rep counting from the smoothed angle
squat_stage(self, sm) ==
    LET prev == self.stage
    IN  IF FracGt(sm, UP_THRESHOLD) THEN
            IF self.rep_in_progress /\ prev = "down"
            THEN [stage |-> "up", counter |-> self.counter + 1,
                  rep_in_progress |-> FALSE,
                  warnings |-> <<RepCompletedMsg(self.counter + 1)>>]
            ELSE [stage |-> "up", counter |-> self.counter,
                  rep_in_progress |-> self.rep_in_progress,
                  warnings |-> <<>>]
        ELSE IF FracLt(sm, DEPTH_THRESHOLD) THEN
            [stage |-> "down", counter |-> self.counter,
             rep_in_progress |-> TRUE, warnings |-> <<>>]
        ELSE
            [stage |-> "transition", counter |-> self.counter,
             rep_in_progress |-> self.rep_in_progress, warnings |-> <<>>]

\* one form rule's outcome: score delta and the messages it appends
Rule(delta, msgs) == [delta |-> delta, msgs |-> msgs]

\* 1. depth
squat_rule_depth(sm, stage) ==
    IF FracLe(sm, EXCELLENT_DEPTH) THEN Rule(5, <<"Excellent depth!">>)
    ELSE IF FracLe(sm, DEPTH_THRESHOLD) THEN Rule(0, <<"Good depth!">>)
    ELSE IF stage = "down"
         THEN Rule(-20, <<"Go deeper - aim for 90 knee angle">>)
    ELSE Rule(0, <<>>)

\* 2. symmetry
squat_rule_symmetry(left_leg_angle, right_leg_angle) ==
    IF Abs(left_leg_angle - right_leg_angle) > 15
    THEN Rule(-10, <<"Keep both legs symmetric">>)
    ELSE Rule(0, <<"Good leg symmetry!">>)

\* 3. posture; avg_torso_angle = torso2 / 2
squat_rule_posture(torso2) ==
    IF torso2 < 2 * 160
    THEN Rule(-15, <<"Keep chest up and back straight">>)
    ELSE IF torso2 > 2 * 200
    THEN Rule(-10, <<"Don't lean back - maintain neutral spine">>)
    ELSE Rule(0, <<"Great posture!">>)

\* 4. knee alignment; 0.8 and 1.3 as tenths
squat_rule_knees(knee_width, ankle_width) ==
    IF 10 * knee_width < 8 * ankle_width
    THEN Rule(-15, <<"Keep knees aligned with toes">>)
    ELSE IF 10 * knee_width > 13 * ankle_width
    THEN Rule(-5, <<"Knees slightly too wide">>)
    ELSE Rule(0, <<>>)

\* 5. range of motion feedback
squat_rule_rom(sm, stage, previous_stage) ==
    IF stage = "up" /\ FracGt(sm, 170)
    THEN Rule(0, <<"Ready position - start your squat">>)
    ELSE IF stage = "transition"
    THEN IF previous_stage = "up"
         THEN Rule(0, <<"Descending - control the movement">>)
         ELSE Rule(0, <<"Ascending - drive through heels">>)
    ELSE Rule(0, <<>>)

\* the clamp without its upper limit
clamp_score_floor_only(score) == Max2(0, score)

\* "Ensure score is within bounds"
clamp_score(score) == Max2(0, Min2(100, score))

\* the bands with strict comparisons
headline_strict(score) ==
    IF score > 90 THEN "Perfect form!"
    ELSE IF score > 80 THEN "Great form!"
    ELSE IF score > 70 THEN "Good form, minor adjustments needed"
    ELSE "Focus on form improvements"

\* the overall performance message put in front of the warnings
headline(score) ==
    IF score >= 90 THEN "Perfect form!"
    ELSE IF score >= 80 THEN "Great form!"
    ELSE IF score >= 70 THEN "Good form, minor adjustments needed"
    ELSE "Focus on form improvements"

\* a frame with 33 well-formed landmarks, as the measurements taken from it
SquatFrame(l, r, torso2, kw, aw) ==
    [left_leg_angle |-> l, right_leg_angle |-> r, torso2 |-> torso2,
     knee_width |-> kw, ankle_width |-> aw]

\* analyze_squat_form on a frame with 33 well-formed landmarks: the tracker
\* after the call and the tuple returned
analyze_squat_form(self, f) ==
    LET avg_leg_angle == (f.left_leg_angle + f.right_leg_angle) \div 2
        s  == smooth_angle(self.angle_history, avg_leg_angle)
        sm == s.value
        st == squat_stage(self, sm)
        r1 == squat_rule_depth(sm, st.stage)
        r2 == squat_rule_symmetry(f.left_leg_angle, f.right_leg_angle)
        r3 == squat_rule_posture(f.torso2)
        r4 == squat_rule_knees(f.knee_width, f.ankle_width)
        r5 == squat_rule_rom(sm, st.stage, self.stage)
        raw == 100 + r1.delta + r2.delta + r3.delta + r4.delta + r5.delta
        score == clamp_score(raw)
        warnings == <<headline(score)>> \o st.warnings \o r1.msgs \o r2.msgs
                        \o r3.msgs \o r4.msgs \o r5.msgs
        new == [cls |-> self.cls,
                counter |-> st.counter, stage |-> st.stage,
                previous_stage |-> self.stage,
                form_score |-> score, warnings |-> warnings,
                rep_in_progress |-> st.rep_in_progress,
                angle_history |-> s.history]
    IN  [self |-> new, smoothed |-> sm,
         ret |-> [call |-> "analyze_squat_form", form_score |-> score,
                  warnings |-> warnings, stage |-> st.stage,
                  rep_count |-> st.counter]]

\* lines 75-76: no landmarks, or fewer than 33
analyze_squat_form_no_pose ==
    [call |-> "analyze_squat_form", form_score |-> 0,
     warnings |-> <<"No pose detected - ensure full body is visible">>,
     stage |-> "up", rep_count |-> 0]

\* the exception surfacing to the caller instead of being caught
analyze_squat_form_raises(self) ==
    [call |-> "analyze_squat_form", raised |-> "Exception"]

\* lines 193-194: an exception while reading the landmarks
analyze_squat_form_error(self) ==
    [call |-> "analyze_squat_form", form_score |-> 50,
     warnings |-> <<"Analysis error">>,
     stage |-> "up", rep_count |-> self.counter]

\* The frames fed to the squat tracker.  Leg angles are results of
\* calculate_angle, in [0, 180]; both legs of a frame have an even sum, so
\* that their average is an integer.  torso2 is left_torso_angle +
\* right_torso_angle, the widths are pixels.
SquatFrames ==
    { SquatFrame(60, 60, 350, 100, 100),
      SquatFrame(50, 70, 300, 70, 100),
      SquatFrame(120, 120, 350, 140, 100),
      SquatFrame(120, 120, 300, 70, 100),
      SquatFrame(176, 176, 350, 100, 100),
      SquatFrame(176, 176, 300, 100, 100) }

SquatAnalyze ==
    /\ tracker.cls = "ImprovedSquatTracker"
    /\ Running
    /\ \E f \in SquatFrames :
         LET res == analyze_squat_form(tracker, f)
         IN  /\ tracker' = res.self
             /\ ret' = res.ret
             /\ obs' = Observe(obs, tracker, res.self, now, "valid",
                               FracBand(res.smoothed, DEPTH_THRESHOLD,
                                        UP_THRESHOLD))
    /\ UNCHANGED now

SquatNoPose ==
    /\ tracker.cls = "ImprovedSquatTracker"
    /\ Running
    /\ ret' = analyze_squat_form_no_pose
    /\ obs' = Observe(obs, tracker, tracker, now, "no_pose", "none")
    /\ UNCHANGED <<tracker, now>>

SquatError ==
    /\ tracker.cls = "ImprovedSquatTracker"
    /\ Running
    /\ ret' = analyze_squat_form_error(tracker)
    /\ obs' = Observe(obs, tracker, tracker, now, "malformed", "none")
    /\ UNCHANGED <<tracker, now>>

(***************************************************************************)
(* Clock readings of a timed frame: the clock never runs backwards.        *)
(***************************************************************************)
ClockReadings == { t \in now .. (now + MaxDt) : t <= MaxTime }

\* current_time - last > secs, in ticks
Elapsed(t, last, secs) == t - last > secs * TicksPerSec

(***************************************************************************)
(* FootFlexes (exercises/foot_flexes_tracker21.py)                         *)
(***************************************************************************)
FootFlexes_angle_threshold_curl == 140
FootFlexes_angle_threshold_extend == 160

\* __init__ at clock reading t
FootFlexes_init(t) ==
    [cls |-> "FootFlexes", counter |-> 0, stage |-> "Initial",
     last_update |-> t]

\* the debounce test with >= for >
FootFlexes_debounced_ge(self, t) == t - self.last_update >= TicksPerSec

\* the debounce test of the rep count ("Prevent rapid counting")
FootFlexes_debounced(self, t) == Elapsed(t, self.last_update, 1)

\* the extension branch without its test of the stage
track_foot_flex_any_stage(self, angle, t) ==
    IF angle < FootFlexes_angle_threshold_curl /\ self.stage # "Curled"
    THEN [self EXCEPT !.stage = "Curled"]
    ELSE IF angle > FootFlexes_angle_threshold_extend
    THEN IF FootFlexes_debounced(self, t)
         THEN [self EXCEPT !.stage = "Extended",
                           !.counter = self.counter + 1,
                           !.last_update = t]
         ELSE [self EXCEPT !.stage = "Extended"]
    ELSE IF angle >= FootFlexes_angle_threshold_extend
    THEN [self EXCEPT !.stage = "Extended"]
    ELSE self

track_foot_flex(self, angle, t) ==
    IF angle < FootFlexes_angle_threshold_curl /\ self.stage # "Curled"
    THEN [self EXCEPT !.stage = "Curled"]
    ELSE IF angle > FootFlexes_angle_threshold_extend /\ self.stage = "Curled"
    THEN IF FootFlexes_debounced(self, t)
         THEN [self EXCEPT !.stage = "Extended",
                           !.counter = self.counter + 1,
                           !.last_update = t]
         ELSE [self EXCEPT !.stage = "Extended"]
    ELSE IF angle >= FootFlexes_angle_threshold_extend
    THEN [self EXCEPT !.stage = "Extended"]
    ELSE self

\* foot angles (results of calculate_angle)
FootAngles == {130, 150, 160, 170}

FootFlexFrame ==
    /\ tracker.cls = "FootFlexes"
    /\ Running
    /\ \E angle \in FootAngles, t \in ClockReadings :
         LET new == track_foot_flex(tracker, angle, t)
         IN  /\ tracker' = new
             /\ now' = t
             /\ ret' = [call |-> "track_foot_flex", counter |-> new.counter,
                        stage |-> new.stage, angle |-> angle]
             /\ obs' = Observe(obs, tracker, new, t, "valid",
                               Band(angle, FootFlexes_angle_threshold_curl,
                                    FootFlexes_angle_threshold_extend))

(***************************************************************************)
(* SeatedMarching (exercises/seated_marching_tracker26.py)                 *)
(***************************************************************************)
knee_angle_threshold_raised == 90
knee_angle_threshold_lowered == 150

SeatedMarching_init(t) ==
    [cls |-> "SeatedMarching", counter |-> 0, stage |-> "Initial",
     last_update |-> t, right_knee_raised |-> FALSE,
     left_knee_raised |-> FALSE]

SeatedMarching_debounced(self, t) == Elapsed(t, self.last_update, 1)

track_marching(self, right_knee_angle, left_knee_angle, t) ==
    IF right_knee_angle < knee_angle_threshold_raised
       /\ ~self.right_knee_raised
    THEN [self EXCEPT !.stage = "Right Knee Raised",
                      !.right_knee_raised = TRUE]
    ELSE IF right_knee_angle > knee_angle_threshold_lowered
            /\ self.right_knee_raised /\ ~self.left_knee_raised
    THEN [self EXCEPT !.stage = "Right Knee Lowered",
                      !.right_knee_raised = FALSE]
    ELSE IF left_knee_angle < knee_angle_threshold_raised
            /\ ~self.left_knee_raised /\ ~self.right_knee_raised
    THEN [self EXCEPT !.stage = "Left Knee Raised",
                      !.left_knee_raised = TRUE]
    ELSE IF left_knee_angle > knee_angle_threshold_lowered
            /\ self.left_knee_raised
    THEN IF SeatedMarching_debounced(self, t)
         THEN [self EXCEPT !.stage = "Left Knee Lowered",
                           !.left_knee_raised = FALSE,
                           !.counter = self.counter + 1,
                           !.last_update = t]
         ELSE [self EXCEPT !.stage = "Left Knee Lowered",
                           !.left_knee_raised = FALSE]
    ELSE IF ~self.right_knee_raised /\ ~self.left_knee_raised
    THEN [self EXCEPT !.stage = "Neutral"]
    ELSE self

KneeAngles == {80, 120, 160}

SeatedMarchingFrame ==
    /\ tracker.cls = "SeatedMarching"
    /\ Running
    /\ \E rk \in KneeAngles, lk \in KneeAngles, t \in ClockReadings :
         LET new == track_marching(tracker, rk, lk, t)
         IN  /\ tracker' = new
             /\ now' = t
             /\ ret' = [call |-> "track_marching", counter |-> new.counter,
                        stage |-> new.stage, right_knee_angle |-> rk,
                        left_knee_angle |-> lk]
             /\ obs' = Observe(obs, tracker, new, t, "valid", "none")

(***************************************************************************)
(* CoreStrengthening.track_bird_dog                                        *)
(* (exercises/core_strengthening_tracker14.py)                             *)
(***************************************************************************)
elbow_angle_threshold == 150
knee_angle_threshold == 150

CoreStrengthening_init(exercise_type, t) ==
    [cls |-> "CoreStrengthening", exercise_type |-> exercise_type,
     counter |-> 0, stage |-> "Initial", start_time |-> "None",
     last_update |-> t, plank_duration |-> 0]

CoreStrengthening_debounced(self, t) == Elapsed(t, self.last_update, 1)

track_bird_dog(self, elbow_angle, knee_angle, t) ==
    IF elbow_angle > elbow_angle_threshold
       /\ knee_angle > knee_angle_threshold
    THEN [self EXCEPT !.stage = "Extended"]
    ELSE IF (elbow_angle < elbow_angle_threshold - 20
             \/ knee_angle < knee_angle_threshold - 20)
            /\ self.stage = "Extended"
    THEN IF CoreStrengthening_debounced(self, t)
         THEN [self EXCEPT !.stage = "Returning",
                           !.counter = self.counter + 1,
                           !.last_update = t]
         ELSE [self EXCEPT !.stage = "Returning"]
    ELSE [self EXCEPT !.stage = "Neutral"]

BirdDogAngles == {120, 140, 160}

\* the band of the two angles between the return thresholds (130) and the
\* extension thresholds (150): "gap" when both lie strictly between them
BirdDogBand(elbow_angle, knee_angle) ==
    LET e == Band(elbow_angle, elbow_angle_threshold - 20,
                  elbow_angle_threshold)
        k == Band(knee_angle, knee_angle_threshold - 20,
                  knee_angle_threshold)
    IN  IF e = "high" /\ k = "high" THEN "high"
        ELSE IF e = "low" \/ k = "low" THEN "low"
        ELSE IF e = "gap" /\ k = "gap" THEN "gap"
        ELSE "edge"

BirdDogFrame ==
    /\ tracker.cls = "CoreStrengthening"
    /\ Running
    /\ \E ea \in BirdDogAngles, ka \in BirdDogAngles, t \in ClockReadings :
         LET new == track_bird_dog(tracker, ea, ka, t)
         IN  /\ tracker' = new
             /\ now' = t
             /\ ret' = [call |-> "track_bird_dog", counter |-> new.counter,
                        stage |-> new.stage, elbow_angle |-> ea,
                        knee_angle |-> ka]
             /\ obs' = Observe(obs, tracker, new, t, "valid",
                               BirdDogBand(ea, ka))

(***************************************************************************)
(* ChairYoga (exercises/chair_yoga.py).  The tracker reads no clock; the   *)
(* clock reading of a frame is the time the frame was captured.            *)
(***************************************************************************)
spinal_angle_threshold == 15
arm_angle_up == 160
arm_angle_down == 60

ChairYoga_init ==
    [cls |-> "ChairYoga", counter_right |-> 0, counter_left |-> 0,
     stage_right |-> "None", stage_left |-> "None"]

\* lines 85-89 and 91-95: one arm's stage and counter
chair_yoga_arm(stage, counter, angle) ==
    IF angle > arm_angle_up
    THEN [stage |-> "Up", counter |-> counter]
    ELSE IF angle < arm_angle_down /\ stage = "Up"
    THEN [stage |-> "Down", counter |-> counter + 1]
    ELSE [stage |-> stage, counter |-> counter]

\* lines 77-82: the warning for one side, "None" without misalignment
spine_warning(side, angle) ==
    IF Abs(angle) > spinal_angle_threshold
    THEN side \o " Spine Misalignment! Angle: " \o ToString(angle)
    ELSE "None"

track_chair_yoga(self, angle_right_arm, angle_left_arm, angle_right_spine, angle_left_spine) ==
    LET r == chair_yoga_arm(self.stage_right, self.counter_right,
                            angle_right_arm)
        l == chair_yoga_arm(self.stage_left, self.counter_left,
                            angle_left_arm)
        new == [cls |-> self.cls,
                counter_right |-> r.counter, counter_left |-> l.counter,
                stage_right |-> r.stage, stage_left |-> l.stage]
    IN  [self |-> new,
         ret |-> [call |-> "track_chair_yoga",
                  counter_right |-> r.counter,
                  angle_right_arm |-> angle_right_arm,
                  counter_left |-> l.counter,
                  angle_left_arm |-> angle_left_arm,
                  warning_message_right |->
                      spine_warning("Right", angle_right_spine),
                  warning_message_left |->
                      spine_warning("Left", angle_left_spine),
                  progress_right |-> IF r.stage = "Up" THEN 1 ELSE 0,
                  progress_left |-> IF l.stage = "Up" THEN 1 ELSE 0,
                  stage_right |-> r.stage, stage_left |-> l.stage]]

ArmAngles == {50, 100, 170}
\* <<angle_right_spine, angle_left_spine>>
SpineAngles == {<<10, 10>>, <<20, 10>>}

ChairYogaFrame ==
    /\ tracker.cls = "ChairYoga"
    /\ Running
    /\ \E ar \in ArmAngles, al \in ArmAngles, sp \in SpineAngles,
          t \in ClockReadings :
         LET res == track_chair_yoga(tracker, ar, al, sp[1], sp[2])
         IN  /\ tracker' = res.self
             /\ now' = t
             /\ ret' = res.ret
             /\ obs' = Observe(obs, tracker, res.self, t, "valid",
                               Band(ar, arm_angle_down, arm_angle_up))

(***************************************************************************)
(* GripStrengthening (fitness/exercises/grip_strengthening_tracker7.py).   *)
(* Distances are in hundredths of the normalized unit.                     *)
(***************************************************************************)
GripStrengthening_distance_threshold == 5

GripStrengthening_init(t) ==
    [cls |-> "GripStrengthening", counter |-> 0, stage |-> "Initial",
     last_update |-> t]

\* the no-hand branch starting the count afresh
track_grip_no_hand_reset(self) ==
    [self EXCEPT !.stage = "No hand detected", !.counter = 0]

\* lines 19-21: no hand in the frame
track_grip_no_hand(self) == [self EXCEPT !.stage = "No hand detected"]

track_grip(self, distance, t) ==
    IF distance < GripStrengthening_distance_threshold
    THEN [self EXCEPT !.stage = "Squeezing"]
    ELSE IF distance >= GripStrengthening_distance_threshold
            /\ self.stage = "Squeezing"
    THEN IF 2 * (t - self.last_update) > TicksPerSec
         THEN [self EXCEPT !.stage = "Released",
                           !.counter = self.counter + 1,
                           !.last_update = t]
         ELSE [self EXCEPT !.stage = "Released"]
    ELSE [self EXCEPT !.stage = "Open Hand"]

\* thumb tip to finger tip distances
TipDistances == {3, 5, 8}

GripFrame ==
    /\ tracker.cls = "GripStrengthening"
    /\ Running
    /\ \E d \in TipDistances, t \in ClockReadings :
         LET new == track_grip(tracker, d, t)
         IN  /\ tracker' = new
             /\ now' = t
             /\ ret' = [call |-> "track_grip", counter |-> new.counter,
                        stage |-> new.stage]
             /\ obs' = Observe(obs, tracker, new, t, "valid",
                               TipBand(d, GripStrengthening_distance_threshold))

GripNoHand ==
    /\ tracker.cls = "GripStrengthening"
    /\ Running
    /\ \E t \in ClockReadings :
         LET new == track_grip_no_hand(tracker)
         IN  /\ tracker' = new
             /\ now' = t
             /\ ret' = [call |-> "track_grip", counter |-> new.counter,
                        stage |-> new.stage]
             /\ obs' = Observe(obs, tracker, new, t, "no_pose", "none")

(***************************************************************************)
(* FingerToThumb (exercises/finger_to_thumb_tracker12.py)                  *)
(***************************************************************************)
Fingers == {"Index", "Middle", "Ring", "Pinky"}
FingerToThumb_distance_threshold == 5

FingerToThumb_init(t) ==
    [cls |-> "FingerToThumb",
     counters |-> [f \in Fingers |-> 0],
     stages |-> [f \in Fingers |-> "Open"],
     last_update |-> [f \in Fingers |-> t]]

\* lines 34-36: no hand in the frame
track_touches_no_hand(self) ==
    [self EXCEPT !.stages = [f \in Fingers |-> "No hand detected"]]

\* lines 64-70 for one finger: its stage, counter and last update
finger_touch(stage, counter, last, distance, t) ==
    IF distance < FingerToThumb_distance_threshold /\ stage = "Open"
    THEN [stage |-> "Touching", counter |-> counter, last |-> last]
    ELSE IF distance >= FingerToThumb_distance_threshold
            /\ stage = "Touching"
    THEN IF 2 * (t - last) > TicksPerSec
         THEN [stage |-> "Open", counter |-> counter + 1, last |-> t]
         ELSE [stage |-> "Open", counter |-> counter, last |-> last]
    ELSE [stage |-> stage, counter |-> counter, last |-> last]

\* distance maps each finger to its tip's distance from the thumb tip
track_touches(self, distance, t) ==
    LET one(f) == finger_touch(self.stages[f], self.counters[f],
                               self.last_update[f], distance[f], t)
    IN  [self EXCEPT !.stages = [f \in Fingers |-> one(f).stage],
                     !.counters = [f \in Fingers |-> one(f).counter],
                     !.last_update = [f \in Fingers |-> one(f).last]]

\* the hands shown to the tracker: open, the index finger on the thumb, at
\* the threshold, and all four fingers on the thumb
HandPoses ==
    { [f \in Fingers |-> 8],
      [f \in Fingers |-> IF f = "Index" THEN 3 ELSE 8],
      [f \in Fingers |-> IF f = "Index" THEN 5 ELSE 8],
      [f \in Fingers |-> 3] }

FingerFrame ==
    /\ tracker.cls = "FingerToThumb"
    /\ Running
    /\ \E d \in HandPoses, t \in ClockReadings :
         LET new == track_touches(tracker, d, t)
         IN  /\ tracker' = new
             /\ now' = t
             /\ ret' = [call |-> "track_touches", counters |-> new.counters,
                        stages |-> new.stages]
             /\ obs' = Observe(obs, tracker, new, t, "valid",
                               TipBand(d["Index"],
                                       FingerToThumb_distance_threshold))

FingerNoHand ==
    /\ tracker.cls = "FingerToThumb"
    /\ Running
    /\ \E t \in ClockReadings :
         LET new == track_touches_no_hand(tracker)
         IN  /\ tracker' = new
             /\ now' = t
             /\ ret' = [call |-> "track_touches", counters |-> new.counters,
                        stages |-> new.stages]
             /\ obs' = Observe(obs, tracker, new, t, "no_pose", "none")

(***************************************************************************)
(* The backend's per-frame analysis (backend/main.py).  It keeps no state  *)
(* between frames.  Coordinates are hundredths of the normalized unit, and *)
(* a mean of two coordinates is compared as their sum against twice the    *)
(* threshold.                                                              *)
(***************************************************************************)
Backend_init == [cls |-> "Backend"]

Pt(x, y) == [x |-> x, y |-> y]

\* main.py 660-668: the stage from hkd2 = 2 * hip_knee_distance
accurate_stage(hkd2) ==
    IF hkd2 > 16 THEN "up"
    ELSE IF hkd2 < -6 THEN "down"
    ELSE IF hkd2 < 4 THEN "down"
    ELSE "up"

\* 1. depth
accurate_rule_depth(hkd2) ==
    IF hkd2 < -10 THEN Rule(5, <<"Excellent depth!">>)
    ELSE IF hkd2 < -4 THEN Rule(0, <<"Good depth!">>)
    ELSE IF hkd2 > 10
    THEN Rule(-20, <<"Go deeper - hips should go below knees">>)
    ELSE Rule(0, <<>>)

\* 2. knee alignment
accurate_rule_knees(knee_width, ankle_width) ==
    IF 10 * knee_width < 8 * ankle_width
    THEN Rule(-15, <<"Keep knees aligned with toes">>)
    ELSE IF 10 * knee_width > 13 * ankle_width
    THEN Rule(-5, <<"Knees slightly too wide">>)
    ELSE Rule(0, <<"Good knee alignment!">>)

\* 3. back posture; align2 = 2 * shoulder_hip_alignment
accurate_rule_posture(align2) ==
    IF align2 > 20 THEN Rule(-10, <<"Keep chest up and back straight">>)
    ELSE Rule(0, <<"Good posture!">>)

\* 4. symmetry
accurate_rule_symmetry(left_right_hip_diff, left_right_knee_diff) ==
    IF left_right_hip_diff > 5 \/ left_right_knee_diff > 5
    THEN Rule(-8, <<"Keep body balanced and symmetric">>)
    ELSE Rule(0, <<>>)

\* 5. ankle mobility; lean2 = 2 * ankle_forward_lean
accurate_rule_ankle(stage, lean2) ==
    IF stage = "down" /\ lean2 > 10
    THEN Rule(-5, <<"Try to keep shins more vertical">>)
    ELSE Rule(0, <<>>)

\* main.py 719-722
accurate_rep(stage, hkd2) == IF stage = "down" /\ hkd2 < -4 THEN 1 ELSE 0

Analysis(score, warnings, stage, rep) ==
    [formScore |-> score, warnings |-> warnings, stage |-> stage,
     currentRep |-> rep]

\* analyze_squat_form_accurate on n keypoints, kp holding the eight it reads
analyze_squat_form_accurate(n, kp) ==
    IF n < 33
    THEN Analysis(70, <<"Incomplete pose detection - ensure full body is visible">>,
                  "up", 0)
    ELSE
    LET hkd2 == (kp.left_hip.y + kp.right_hip.y)
                    - (kp.left_knee.y + kp.right_knee.y)
        stage == accurate_stage(hkd2)
        r1 == accurate_rule_depth(hkd2)
        r2 == accurate_rule_knees(Abs(kp.left_knee.x - kp.right_knee.x),
                                  Abs(kp.left_ankle.x - kp.right_ankle.x))
        r3 == accurate_rule_posture(
                  Abs((kp.left_shoulder.x + kp.right_shoulder.x)
                      - (kp.left_hip.x + kp.right_hip.x)))
        r4 == accurate_rule_symmetry(Abs(kp.left_hip.y - kp.right_hip.y),
                                     Abs(kp.left_knee.y - kp.right_knee.y))
        r5 == accurate_rule_ankle(stage,
                  (kp.left_ankle.x + kp.right_ankle.x)
                      - (kp.left_knee.x + kp.right_knee.x))
        raw == 100 + r1.delta + r2.delta + r3.delta + r4.delta + r5.delta
        formScore == clamp_score(raw)
    IN  Analysis(formScore,
                 <<headline(formScore)>> \o r1.msgs \o r2.msgs \o r3.msgs
                     \o r4.msgs \o r5.msgs,
                 stage, accurate_rep(stage, hkd2))

\* main.py 739-740: an exception while reading the keypoints
analyze_squat_form_accurate_error ==
    Analysis(70, <<"Analysis error">>, "up", 0)

\* analyze_pushup_form on n keypoints
analyze_pushup_form(n, kp) ==
    IF n < 33
    THEN Analysis(70, <<"Incomplete pose detection">>, "rest", 1)
    ELSE
    LET shoulder_y2 == kp.left_shoulder.y + kp.right_shoulder.y
        elbow_y2 == kp.left_elbow.y + kp.right_elbow.y
        stage == IF elbow_y2 < shoulder_y2 - 20 THEN "up"
                 ELSE IF elbow_y2 > shoulder_y2 + 10 THEN "down"
                 ELSE "middle"
        r1 == IF Abs(kp.left_elbow.y - kp.right_elbow.y) > 10
              THEN Rule(-10, <<"Keep elbows even">>) ELSE Rule(0, <<>>)
        r2 == IF elbow_y2 > shoulder_y2 + 20
              THEN Rule(0, <<"Good range of motion!">>)
              ELSE Rule(-15, <<"Go lower">>)
        form_score == 100 + r1.delta + r2.delta
    IN  Analysis(Max2(form_score, 0), r1.msgs \o r2.msgs, stage,
                 IF stage = "down" THEN 1 ELSE 0)

\* main.py 786-787
analyze_pushup_form_error == Analysis(70, <<"Analysis error">>, "rest", 1)

\* analyze_exercise_form: the dispatch on the exercise type
analyze_exercise_form(n, kp, exercise_type) ==
    IF exercise_type = "squat" THEN analyze_squat_form_accurate(n, kp)
    ELSE IF exercise_type = "push_up" THEN analyze_pushup_form(n, kp)
    ELSE Analysis(80, <<>>, "down", 1)

PoseData(keypoints, confidence, a) ==
    [call |-> "process_frame_for_pose_analysis", keypoints |-> keypoints,
     confidence |-> confidence, formScore |-> a.formScore,
     currentRep |-> a.currentRep, stage |-> a.stage,
     warnings |-> a.warnings]

\* main.py 494-497: the mean visibility of the hips, knees and ankles
\* (indices 23..28) that are among the n keypoints, each of visibility vis
key_confidence(n, vis) == IF n > 23 THEN vis ELSE 0

\* main.py 470-515, the pose model having found the landmarks of a person
process_frame_pose(n, vis, kp) ==
    PoseData(n, key_confidence(n, vis), analyze_squat_form_accurate(n, kp))

\* main.py 501-506: the pose model found nobody
process_frame_no_pose ==
    PoseData(0, 0,
             Analysis(0, <<"No pose detected - ensure full body is visible">>,
                      "rest", 0))

\* accurate_fallback_pose_analysis at clock reading t: the band of
\* squat_phase = (t % 4 s) / 4 s, a score u between the band's limits and a
\* confidence c between 85 and 95 hundredths
fallback_band(t) ==
    LET cycle == 4 * TicksPerSec
        ph == t % cycle
    IN  IF 10 * ph < 2 * cycle THEN 1
        ELSE IF 10 * ph < 4 * cycle THEN 2
        ELSE IF 10 * ph < 6 * cycle THEN 3
        ELSE IF 10 * ph < 8 * cycle THEN 4
        ELSE 5

fallback_scores(band) ==
    IF band = 1 THEN {85, 95}
    ELSE IF band = 2 THEN {80, 90}
    ELSE IF band = 3 THEN {88, 98}
    ELSE IF band = 4 THEN {82, 92}
    ELSE {88, 96}

accurate_fallback_pose_analysis(t, u, c) ==
    LET band == fallback_band(t)
    IN  PoseData(33, c,
          IF band = 1
          THEN Analysis(u, <<"Ready position", "Keep core engaged">>, "up", 0)
          ELSE IF band = 2
          THEN Analysis(u, <<"Descending - control the movement",
                             "Keep knees aligned">>, "down", 0)
          ELSE IF band = 3
          THEN Analysis(u, <<"Excellent depth!", "Perfect squat position">>,
                        "hold", 1)
          ELSE IF band = 4
          THEN Analysis(u, <<"Drive through heels", "Great power!">>, "up", 0)
          ELSE Analysis(u, <<"Complete!", "Ready for next rep">>, "up", 0))

\* The poses shown to the backend.  The knees are at y = 60 and the ankles
\* at x = 40 and 60 unless shifted; hy is the hips' mean y, tilt half the
\* difference of the two hips' y, knees the knees' x, shift the ankles' and
\* lean the shoulders' displacement in x.
Keypoints(hy, tilt, knees, shift, lean, ey, etilt) ==
    [left_shoulder |-> Pt(40 + lean, 30), right_shoulder |-> Pt(60 + lean, 30),
     left_elbow |-> Pt(35, ey - etilt), right_elbow |-> Pt(65, ey + etilt),
     left_hip |-> Pt(40, hy - tilt), right_hip |-> Pt(60, hy + tilt),
     left_knee |-> Pt(knees[1], 60), right_knee |-> Pt(knees[2], 60),
     left_ankle |-> Pt(40 + shift, 90), right_ankle |-> Pt(60 + shift, 90)]

SquatPoses ==
    { Keypoints(hy, tilt, knees, shift, lean, 40, 0) :
        hy \in {70, 66, 63, 61, 57, 54}, tilt \in {0, 3},
        knees \in {<<40, 60>>, <<45, 55>>, <<35, 65>>},
        shift \in {0, 7}, lean \in {0, 12} }

PushupPoses ==
    { Keypoints(70, 0, <<40, 60>>, 0, 0, ey, etilt) :
        ey \in {15, 30, 38, 45}, etilt \in {0, 6} }

\* a frame is short of the 33 landmarks, or has them all
KeypointCounts == {20, 25, 33}
\* the visibility of the keypoints of a frame, in hundredths
Visibilities == {50, 90}

APose == Keypoints(70, 0, <<40, 60>>, 0, 0, 40, 0)

\* <<number of keypoints, their visibility, the keypoints>>
BackendFrames ==
    { <<33, vis, kp>> : vis \in Visibilities, kp \in SquatPoses }
        \cup { <<n, vis, APose>> : n \in KeypointCounts, vis \in Visibilities }

BackendFrame ==
    /\ tracker.cls = "Backend"
    /\ \E f \in BackendFrames :
         /\ ret' = process_frame_pose(f[1], f[2], f[3])
         /\ obs' = [obs EXCEPT !.frame =
                                 IF f[1] < 33 THEN "no_pose" ELSE "valid"]
    /\ UNCHANGED <<tracker, now>>

BackendNoPose ==
    /\ tracker.cls = "Backend"
    /\ ret' = process_frame_no_pose
    /\ obs' = [obs EXCEPT !.frame = "no_pose"]
    /\ UNCHANGED <<tracker, now>>

\* the squat analysis raised: its except branch answers
BackendMalformed ==
    /\ tracker.cls = "Backend"
    /\ \E vis \in Visibilities :
         ret' = PoseData(33, vis, analyze_squat_form_accurate_error)
    /\ obs' = [obs EXCEPT !.frame = "malformed"]
    /\ UNCHANGED <<tracker, now>>

\* the pose model is unavailable, or the image does not decode; the backend
\* keeps no clock reading, the call may come at any time
BackendFallback ==
    /\ tracker.cls = "Backend"
    /\ \E t \in 0 .. MaxTime, c \in {85, 95} :
         \E u \in fallback_scores(fallback_band(t)) :
            ret' = accurate_fallback_pose_analysis(t, u, c)
    /\ obs' = [obs EXCEPT !.frame = "fallback"]
    /\ UNCHANGED <<tracker, now>>

\* <<number of keypoints, the keypoints, exercise_type>>
ExerciseFormCalls ==
    { <<33, kp, "push_up">> : kp \in PushupPoses }
        \cup { <<33, kp, "squat">> : kp \in
                 { Keypoints(hy, 0, <<40, 60>>, 0, 0, 40, 0) :
                     hy \in {70, 61, 54} } }
        \cup { <<n, APose, e>> : n \in KeypointCounts,
                                 e \in {"squat", "push_up", "lunge"} }

\* analyze_exercise_form called on the keypoints of a frame
BackendExerciseForm ==
    /\ tracker.cls = "Backend"
    /\ \E f \in ExerciseFormCalls :
         /\ ret' = [call |-> "analyze_exercise_form"]
                     @@ analyze_exercise_form(f[1], f[2], f[3])
         /\ obs' = [obs EXCEPT !.frame =
                                 IF f[1] < 33 THEN "no_pose" ELSE "valid"]
    /\ UNCHANGED <<tracker, now>>

\* analyze_pushup_form raised: its except branch answers
BackendPushupMalformed ==
    /\ tracker.cls = "Backend"
    /\ ret' = [call |-> "analyze_exercise_form"] @@ analyze_pushup_form_error
    /\ obs' = [obs EXCEPT !.frame = "malformed"]
    /\ UNCHANGED <<tracker, now>>

Classes == {"ImprovedSquatTracker", "FootFlexes", "SeatedMarching",
            "CoreStrengthening", "ChairYoga", "GripStrengthening",
            "FingerToThumb", "Backend"}

\* the tracker of a session, constructed at clock reading t
New(c, t) ==
    IF c = "ImprovedSquatTracker" THEN ImprovedSquatTracker_init
    ELSE IF c = "FootFlexes" THEN FootFlexes_init(t)
    ELSE IF c = "SeatedMarching" THEN SeatedMarching_init(t)
    ELSE IF c = "CoreStrengthening" THEN CoreStrengthening_init("bird_dog", t)
    ELSE IF c = "ChairYoga" THEN ChairYoga_init
    ELSE IF c = "GripStrengthening" THEN GripStrengthening_init(t)
    ELSE IF c = "FingerToThumb" THEN FingerToThumb_init(t)
    ELSE Backend_init

Init ==
    /\ now = 0
    /\ \E c \in Classes : tracker = New(c, now)
    /\ ret = NoReturn
    /\ obs = NewObs(tracker.cls)

Next ==
    \/ SquatAnalyze
    \/ SquatNoPose
    \/ SquatError
    \/ FootFlexFrame
    \/ SeatedMarchingFrame
    \/ BirdDogFrame
    \/ ChairYogaFrame
    \/ GripFrame
    \/ GripNoHand
    \/ FingerFrame
    \/ FingerNoHand
    \/ BackendFrame
    \/ BackendNoPose
    \/ BackendMalformed
    \/ BackendFallback
    \/ BackendExerciseForm
    \/ BackendPushupMalformed

Spec == Init /\ [][Next]_vars

\* a session of the squat tracker alone
NextSquat == SquatAnalyze \/ SquatNoPose \/ SquatError

InitSquat == Init /\ tracker.cls = "ImprovedSquatTracker"

SpecSquat == InitSquat /\ [][NextSquat]_vars

(***************************************************************************)
(* The smoother alone: smooth_angle called on a fresh tracker with up to   *)
(* MaxPush samples.  Samples are whole degrees: their sums are exact in    *)
(* binary64 and the quotient compares with a whole threshold as the exact  *)
(* mean does.  The observer keeps every sample pushed.                     *)
(***************************************************************************)
MaxPush == 7

SmoothAngles == {30, 95, 180}

InitSmooth ==
    /\ now = 0
    /\ tracker = ImprovedSquatTracker_init
    /\ ret = NoReturn
    /\ obs = [pushed |-> <<>>]

SmoothPush ==
    /\ Len(obs.pushed) < MaxPush
    /\ \E a \in SmoothAngles :
         LET s == smooth_angle(tracker.angle_history, a)
         IN  /\ tracker' = [tracker EXCEPT !.angle_history = s.history]
             /\ ret' = [call |-> "smooth_angle", value |-> s.value]
             /\ obs' = [pushed |-> Append(obs.pushed, a)]
    /\ UNCHANGED now

NextSmooth == SmoothPush

SpecSmooth == InitSmooth /\ [][NextSmooth]_vars

(***************************************************************************)
(* The angle helpers.  A float is a record: nan says it is NaN, deg is its *)
(* value in degrees otherwise.  Points are pairs of whole coordinates; the *)
(* vectors ba and bc of the points drawn lie on the eight compass          *)
(* directions, so the angle between them is a multiple of 45 degrees.      *)
(***************************************************************************)
Deg(d) == [nan |-> FALSE, deg |-> d]
NaN == [nan |-> TRUE, deg |-> 0]

Minus(p, q) == <<p[1] - q[1], p[2] - q[2]>>
Dot(u, v) == u[1] * v[1] + u[2] * v[2]
Cross(u, v) == u[1] * v[2] - u[2] * v[1]
ZeroLength(u) == u = <<0, 0>>

\* degrees(arccos(clip(dot / (|ba| |bc|), -1, 1))) of two compass vectors
arccos_degrees(ba, bc) ==
    IF Cross(ba, bc) = 0 THEN (IF Dot(ba, bc) > 0 THEN 0 ELSE 180)
    ELSE IF Dot(ba, bc) = 0 THEN 90
    ELSE IF Dot(ba, bc) > 0 THEN 45 ELSE 135

\* ImprovedSquatTracker.calculate_angle: with a zero-length vector the
\* quotient of numpy scalars is 0.0 / 0.0 = nan (a RuntimeWarning, no
\* exception, so the except branch returning 180.0 is not taken); clip,
\* arccos and degrees pass the nan on
calculate_angle(point1, point2, point3) ==
    LET ba == Minus(point1, point2)
        bc == Minus(point3, point2)
    IN  IF ZeroLength(ba) \/ ZeroLength(bc) THEN NaN
        ELSE Deg(arccos_degrees(ba, bc))

\* CatCamelStretchTracker.calculate_angle: 0 for a zero magnitude
CatCamel_calculate_angle(a, b, c) ==
    LET ab == Minus(a, b)
        bc == Minus(c, b)
    IN  IF ZeroLength(ab) \/ ZeroLength(bc) THEN Deg(0)
        ELSE Deg(arccos_degrees(ab, bc))

\* calculate_angle of calf_stretches_tracker20.py: no guard, no try
calf_calculate_angle(a, b, c) ==
    LET ba == Minus(a, b)
        bc == Minus(c, b)
    IN  IF ZeroLength(ba) \/ ZeroLength(bc) THEN NaN
        ELSE Deg(arccos_degrees(ba, bc))

AngleHelpers == {"ImprovedSquatTracker.calculate_angle",
                 "CatCamelStretchTracker.calculate_angle",
                 "calf_stretches_tracker20.calculate_angle"}

helper_angle(h, a, b, c) ==
    IF h = "ImprovedSquatTracker.calculate_angle" THEN calculate_angle(a, b, c)
    ELSE IF h = "CatCamelStretchTracker.calculate_angle"
    THEN CatCamel_calculate_angle(a, b, c)
    ELSE calf_calculate_angle(a, b, c)

\* (x + y) / 2 and sum(h) / len(h) in floats: nan if an operand is
FloatMean2(x, y) ==
    IF x.nan \/ y.nan THEN NaN ELSE Deg((x.deg + y.deg) \div 2)

AnglePoints == {<<0, 0>>, <<2, 0>>, <<-2, 0>>, <<2, 2>>}

\* where the hips and the ankles of a squat frame lie, the knees at the origin
HipPoints == {<<0, 2>>}
AnklePoints == {<<0, 0>>, <<2, 0>>, <<0, -2>>}

InitAngle ==
    /\ now = 0
    /\ tracker = ImprovedSquatTracker_init
    /\ ret = NoReturn
    /\ obs = [degenerate |-> FALSE]

\* one call of an angle helper on three points, the vertex at the origin
AngleCall ==
    \E h \in AngleHelpers, a \in AnglePoints, c \in AnglePoints :
        /\ ret' = [call |-> "calculate_angle", helper |-> h,
                   value |-> helper_angle(h, a, <<0, 0>>, c)]
        /\ obs' = [degenerate |-> ZeroLength(a) \/ ZeroLength(c)]
        /\ UNCHANGED <<tracker, now>>

\* analyze_squat_form, lines 88-93: the leg angles of a frame whose hips
\* lie at hip, knees at the origin and ankles at ankle, their average
\* appended to the smoothing buffer
SquatAngleFrame ==
    \E hip \in HipPoints, ankle \in AnklePoints :
        LET left_leg_angle == calculate_angle(hip, <<0, 0>>, ankle)
            right_leg_angle == calculate_angle(hip, <<0, 0>>, ankle)
            avg_leg_angle == FloatMean2(left_leg_angle, right_leg_angle)
        IN  /\ tracker' = [tracker EXCEPT !.angle_history =
                                            push_history(@, avg_leg_angle)]
            /\ ret' = [call |-> "calculate_angle",
                       helper |-> "ImprovedSquatTracker.calculate_angle",
                       value |-> left_leg_angle]
            /\ obs' = [degenerate |-> ZeroLength(hip) \/ ZeroLength(ankle)]
            /\ UNCHANGED now

NextAngle == AngleCall \/ SquatAngleFrame

SpecAngle == InitAngle /\ [][NextAngle]_vars

(***************************************************************************)
(* The duration-gated trackers: CalfStretches                              *)
(* (exercises/calf_stretches_tracker20.py), SingleLegBalance               *)
(* (fitness/exercises/single_leg_balance_tracker22.py) and SingleLegStand  *)
(* (exercises/single_leg_stand.py).  In their sessions a clock reading is  *)
(* a whole number of seconds.  The observer keeps in_band, whether the     *)
(* last frame lay in the target band, and held_since, the reading of the   *)
(* first frame of the present unbroken run of in-band frames (a counted    *)
(* hold ends the run; None outside the band).                              *)
(***************************************************************************)
\* last clock reading of a session of holds, and the largest advance
\* between two frames, in seconds
MaxHoldClock == 24
MaxHoldDt == 3

None == -1

HoldClockReadings == { t \in now .. (now + MaxHoldDt) : t <= MaxHoldClock }

CalfStretches_min_hold_time == 20
CalfStretches_max_hold_time == 30
CalfStretches_angle_threshold_min == 150
CalfStretches_angle_threshold_max == 180

CalfStretches_init(t) ==
    [cls |-> "CalfStretches", counter |-> 0, stage |-> "Initial",
     start_time |-> None, stretch_duration |-> 0, last_update |-> t]

\* the stretch resumed from the time already held before an excursion
track_stretch_resuming(self, angle, current_time) ==
    IF CalfStretches_angle_threshold_min <= angle
         /\ angle <= CalfStretches_angle_threshold_max
    THEN LET fresh == self.stage # "Holding Stretch"
             start == IF fresh
                      THEN current_time - self.stretch_duration
                      ELSE self.start_time
             duration == current_time - start
         IN  IF CalfStretches_min_hold_time <= duration
                  /\ duration <= CalfStretches_max_hold_time
             THEN IF current_time - self.last_update > 1
                  THEN [self EXCEPT !.stage = "Stretch Complete",
                                    !.counter = @ + 1,
                                    !.last_update = current_time,
                                    !.start_time = None,
                                    !.stretch_duration = 0]
                  ELSE [self EXCEPT !.stage = "Stretch Complete",
                                    !.start_time = start,
                                    !.stretch_duration = duration]
             ELSE [self EXCEPT !.stage = "Holding Stretch",
                               !.start_time = start,
                               !.stretch_duration = duration]
    ELSE [self EXCEPT !.stage = "Incorrect Form", !.start_time = None]

\* lines 50-66
track_stretch(self, angle, current_time) ==
    IF CalfStretches_angle_threshold_min <= angle
         /\ angle <= CalfStretches_angle_threshold_max
    THEN LET fresh == self.stage # "Holding Stretch"
             start == IF fresh THEN current_time ELSE self.start_time
             duration == current_time - start
         IN  IF CalfStretches_min_hold_time <= duration
                  /\ duration <= CalfStretches_max_hold_time
             THEN IF current_time - self.last_update > 1
                  THEN [self EXCEPT !.stage = "Stretch Complete",
                                    !.counter = @ + 1,
                                    !.last_update = current_time,
                                    !.start_time = None,
                                    !.stretch_duration = 0]
                  ELSE [self EXCEPT !.stage = "Stretch Complete",
                                    !.start_time = start,
                                    !.stretch_duration = duration]
             ELSE [self EXCEPT !.stage = "Holding Stretch",
                               !.start_time = start,
                               !.stretch_duration = duration]
    ELSE [self EXCEPT !.stage = "Incorrect Form",
                      !.stretch_duration = 0,
                      !.start_time = None]

SingleLegBalance_min_hold_time == 10
SingleLegBalance_angle_threshold_min == 160
SingleLegBalance_angle_threshold_max == 180

SingleLegBalance_init(t) ==
    [cls |-> "SingleLegBalance", counter |-> 0, stage |-> "Initial",
     start_time |-> None, balance_duration |-> 0, last_update |-> t,
     is_balancing |-> FALSE]

\* the condition of line 55
balance_in_band(is_left_leg_raised, angle) ==
    /\ is_left_leg_raised
    /\ SingleLegBalance_angle_threshold_min <= angle
    /\ angle <= SingleLegBalance_angle_threshold_max

\* lines 54-73
track_balance(self, is_left_leg_raised, angle, current_time) ==
    IF balance_in_band(is_left_leg_raised, angle)
    THEN LET start == IF ~self.is_balancing
                      THEN current_time ELSE self.start_time
             duration == current_time - start
         IN  IF duration >= SingleLegBalance_min_hold_time
             THEN IF current_time - self.last_update > 1
                  THEN [self EXCEPT !.stage = "Balance Complete",
                                    !.counter = @ + 1,
                                    !.last_update = current_time,
                                    !.start_time = None,
                                    !.balance_duration = 0,
                                    !.is_balancing = FALSE]
                  ELSE [self EXCEPT !.stage = "Balance Complete",
                                    !.start_time = start,
                                    !.balance_duration = duration,
                                    !.is_balancing = TRUE]
             ELSE [self EXCEPT !.stage = IF self.is_balancing
                                         THEN @ ELSE "Balancing",
                               !.start_time = start,
                               !.balance_duration = duration,
                               !.is_balancing = TRUE]
    ELSE [self EXCEPT !.stage = "Incorrect Form or Not Balancing",
                      !.balance_duration = 0,
                      !.start_time = None,
                      !.is_balancing = FALSE]

SingleLegStand_min_duration == 10
SingleLegStand_max_duration == 30

SingleLegStand_init(t) ==
    [cls |-> "SingleLegStand", counter |-> 0, stage |-> "Initial",
     stance_duration |-> 0, start_time |-> None, last_counter_update |-> t,
     active_leg |-> "None"]

\* the condition of lines 93 and 98
stand_in_band(standing_on_right, standing_on_left, support_detected) ==
    (standing_on_right \/ standing_on_left) /\ support_detected

\* lines 92-116
track_single_leg_stand(self, standing_on_right, standing_on_left, support_detected, current_time) ==
    IF stand_in_band(standing_on_right, standing_on_left, support_detected)
    THEN IF self.stage # "Standing"
         THEN [self EXCEPT !.stage = "Standing",
                           !.start_time = current_time,
                           !.stance_duration = 0,
                           !.active_leg = IF standing_on_right
                                          THEN "Right" ELSE "Left"]
         ELSE IF \/ standing_on_right /\ self.active_leg = "Right"
                 \/ standing_on_left /\ self.active_leg = "Left"
         THEN LET duration == current_time - self.start_time
              IN  IF /\ duration >= SingleLegStand_min_duration
                     /\ duration <= SingleLegStand_max_duration
                     /\ current_time - self.last_counter_update > 1
                  THEN [self EXCEPT !.stance_duration = duration,
                                    !.counter = @ + 1,
                                    !.last_counter_update = current_time,
                                    !.stage = "Completed",
                                    !.active_leg = "None"]
                  ELSE [self EXCEPT !.stance_duration = duration]
         ELSE self
    ELSE [self EXCEPT !.stage = "Initial",
                      !.stance_duration = 0,
                      !.start_time = None,
                      !.active_leg = "None"]

\* the observer after a frame at clock reading t
ObserveHold(o, old, new, t, in_band) ==
    [in_band |-> in_band,
     held_since |-> IF ~in_band THEN None
                    ELSE IF new.counter > old.counter THEN t
                    ELSE IF o.held_since = None THEN t
                    ELSE o.held_since,
     counted |-> new.counter > old.counter,
     held_for |-> IF in_band /\ o.held_since # None
                  THEN t - o.held_since ELSE 0]

HoldClasses == {"CalfStretches", "SingleLegBalance", "SingleLegStand"}

NewHold(c, t) ==
    IF c = "CalfStretches" THEN CalfStretches_init(t)
    ELSE IF c = "SingleLegBalance" THEN SingleLegBalance_init(t)
    ELSE SingleLegStand_init(t)

InitHold ==
    /\ now = 0
    /\ \E c \in HoldClasses : tracker = NewHold(c, now)
    /\ ret = NoReturn
    /\ obs = [in_band |-> FALSE, held_since |-> None, counted |-> FALSE,
              held_for |-> 0]

\* ankle angles of a calf stretch frame
CalfAngles == {140, 150, 165}

CalfStretchFrame ==
    /\ tracker.cls = "CalfStretches"
    /\ \E t \in HoldClockReadings, angle \in CalfAngles :
         LET new == track_stretch(tracker, angle, t)
         IN  /\ tracker' = new
             /\ now' = t
             /\ ret' = [call |-> "track_stretch", counter |-> new.counter,
                        stage |-> new.stage,
                        stretch_duration |-> new.stretch_duration,
                        angle |-> angle]
             /\ obs' = ObserveHold(obs, tracker, new, t,
                          CalfStretches_angle_threshold_min <= angle
                            /\ angle <= CalfStretches_angle_threshold_max)

\* knee angles of a balance frame
BalanceAngles == {150, 170}

SingleLegBalanceFrame ==
    /\ tracker.cls = "SingleLegBalance"
    /\ \E t \in HoldClockReadings, angle \in BalanceAngles,
          raised \in BOOLEAN :
         LET new == track_balance(tracker, raised, angle, t)
         IN  /\ tracker' = new
             /\ now' = t
             /\ ret' = [call |-> "track_balance", counter |-> new.counter,
                        stage |-> new.stage,
                        balance_duration |-> new.balance_duration,
                        angle |-> angle]
             /\ obs' = ObserveHold(obs, tracker, new, t,
                                   balance_in_band(raised, angle))

SingleLegStandFrame ==
    /\ tracker.cls = "SingleLegStand"
    /\ \E t \in HoldClockReadings, sr \in BOOLEAN, sl \in BOOLEAN,
          support \in BOOLEAN :
         LET new == track_single_leg_stand(tracker, sr, sl, support, t)
         IN  /\ tracker' = new
             /\ now' = t
             /\ ret' = [call |-> "track_single_leg_stand",
                        counter |-> new.counter,
                        stance_duration |-> new.stance_duration,
                        stage |-> new.stage]
             /\ obs' = ObserveHold(obs, tracker, new, t,
                                   stand_in_band(sr, sl, support))

NextHold == CalfStretchFrame \/ SingleLegBalanceFrame \/ SingleLegStandFrame

SpecHold == InitHold /\ [][NextHold]_vars

(***************************************************************************)
(* The time-driven cyclic trackers: BreathingExercise                      *)
(* (exercises/breathing_exercise.py), PelvicFloorExercises                 *)
(* (fitness/exercises/pelvic_floor_exercises_tracker 17.py) and            *)
(* AlternateNostrilBreathing (exercises/alternate_nostril_breathing.py).   *)
(* A clock reading is a whole number of seconds.  The observer keeps       *)
(* entered, the reading at which the present phase was entered, and        *)
(* changes, the number of phase changes so far.                            *)
(***************************************************************************)
\* last clock reading of a session of phases, and the largest advance
\* between two polls, in seconds
MaxPhaseClock == 26
MaxPhaseDt == 3

PhaseClockReadings == { t \in now .. (now + MaxPhaseDt) : t <= MaxPhaseClock }

BreathingExercise_phase_duration == 4

expected_fingers(phase) ==
    IF phase = "inhale" THEN 1 ELSE IF phase = "hold" THEN 2 ELSE 3

BreathingExercise_init ==
    [cls |-> "BreathingExercise", cycle_count |-> 0, phase |-> "None",
     phase_start_time |-> None, finger_count |-> 0]

\* the cycle counted at the end of the hold phase as well
track_breathing_exercise_counting_hold(self, finger_count, current_time) ==
    LET phase == IF self.phase = "None" THEN "inhale" ELSE self.phase
        start == IF self.phase = "None"
                 THEN current_time ELSE self.phase_start_time
        time_elapsed == current_time - start
        advance == time_elapsed >= BreathingExercise_phase_duration
        new == [self EXCEPT
                  !.finger_count = finger_count,
                  !.phase = IF ~advance THEN phase
                            ELSE IF phase = "inhale" THEN "hold"
                            ELSE IF phase = "hold" THEN "exhale"
                            ELSE "inhale",
                  !.cycle_count = IF advance /\ phase \in {"hold", "exhale"}
                                  THEN @ + 1 ELSE @,
                  !.phase_start_time = IF advance THEN current_time
                                       ELSE start]
    IN  [self |-> new,
         ret |-> [call |-> "track_breathing_exercise",
                  cycle_count |-> new.cycle_count,
                  finger_count |-> finger_count, phase |-> new.phase,
                  warning |-> finger_count # expected_fingers(phase),
                  progress4 |-> Min2(time_elapsed,
                                     BreathingExercise_phase_duration)]]

\* lines 42-87; progress4 is the returned progress in quarters
track_breathing_exercise(self, finger_count, current_time) ==
    LET phase == IF self.phase = "None" THEN "inhale" ELSE self.phase
        start == IF self.phase = "None"
                 THEN current_time ELSE self.phase_start_time
        time_elapsed == current_time - start
        advance == time_elapsed >= BreathingExercise_phase_duration
        new == [self EXCEPT
                  !.finger_count = finger_count,
                  !.phase = IF ~advance THEN phase
                            ELSE IF phase = "inhale" THEN "hold"
                            ELSE IF phase = "hold" THEN "exhale"
                            ELSE "inhale",
                  !.cycle_count = IF advance /\ phase = "exhale"
                                  THEN @ + 1 ELSE @,
                  !.phase_start_time = IF advance THEN current_time
                                       ELSE start]
    IN  [self |-> new,
         ret |-> [call |-> "track_breathing_exercise",
                  cycle_count |-> new.cycle_count,
                  finger_count |-> finger_count, phase |-> new.phase,
                  warning |-> finger_count # expected_fingers(phase),
                  progress4 |-> Min2(time_elapsed,
                                     BreathingExercise_phase_duration)]]

PelvicFloor_contract_duration == 3
PelvicFloor_release_duration == 3
PelvicFloor_rest_duration == 2

PelvicFloorExercises_init(t) ==
    [cls |-> "PelvicFloorExercises", counter |-> 0, stage |-> "Rest",
     start_time |-> t, last_update |-> t, current_cycle_start |-> t]

\* lines 17-35 and the return of line 52
track_kegel(self, current_time) ==
    LET elapsed_time == current_time - self.current_cycle_start
        new ==
          IF self.stage = "Rest" /\ elapsed_time >= PelvicFloor_rest_duration
          THEN [self EXCEPT !.stage = "Contract",
                            !.current_cycle_start = current_time]
          ELSE IF self.stage = "Contract"
                    /\ elapsed_time >= PelvicFloor_contract_duration
          THEN [self EXCEPT !.stage = "Release",
                            !.current_cycle_start = current_time]
          ELSE IF self.stage = "Release"
                    /\ elapsed_time >= PelvicFloor_release_duration
          THEN [self EXCEPT !.stage = "Rest",
                            !.current_cycle_start = current_time,
                            !.counter = @ + 1,
                            !.last_update = current_time]
          ELSE self
    IN  [self |-> new,
         ret |-> [call |-> "track_kegel", counter |-> new.counter,
                  stage |-> new.stage,
                  elapsed_time |-> IF new = self THEN elapsed_time ELSE 0]]

AlternateNostril_phase_duration == 4

cycle_sequence ==
    <<"Inhale Right", "Hold Right", "Exhale Left", "Hold Left",
      "Inhale Left", "Hold Left", "Exhale Right", "Hold Right">>

\* list.index: the position of the first element equal to x, from 0
index(seq, x) ==
    (CHOOSE i \in 1 .. Len(seq) :
        seq[i] = x /\ \A j \in 1 .. (i - 1) : seq[j] # x) - 1

AlternateNostrilBreathing_init(t) ==
    [cls |-> "AlternateNostrilBreathing", cycle_counter |-> 0,
     breathing_phase |-> "Inhale Right", phase_timer |-> t,
     last_cycle_update |-> t]

\* lines 43-65
track_breathing_cycle(self, current_time) ==
    LET elapsed == current_time - self.phase_timer
        new ==
          IF elapsed >= AlternateNostril_phase_duration
          THEN LET current_index == index(cycle_sequence, self.breathing_phase)
                   next_index == (current_index + 1) % Len(cycle_sequence)
                   counted == next_index = 0
                                /\ current_time - self.last_cycle_update > 1
               IN  [self EXCEPT
                      !.breathing_phase = cycle_sequence[next_index + 1],
                      !.phase_timer = current_time,
                      !.cycle_counter = IF counted THEN @ + 1 ELSE @,
                      !.last_cycle_update = IF counted THEN current_time
                                            ELSE @]
          ELSE self
    IN  [self |-> new,
         ret |-> [call |-> "track_breathing_cycle",
                  breathing_phase |-> new.breathing_phase]]

\* the phase a time-driven tracker is in, and its cycle counter
PhaseOf(t) ==
    IF t.cls = "BreathingExercise" THEN t.phase
    ELSE IF t.cls = "AlternateNostrilBreathing" THEN t.breathing_phase
    ELSE t.stage

CyclesOf(t) ==
    IF t.cls = "BreathingExercise" THEN t.cycle_count
    ELSE IF t.cls = "AlternateNostrilBreathing" THEN t.cycle_counter
    ELSE t.counter

\* the observer after a poll at clock reading t
ObservePhase(o, old, new, t) ==
    IF PhaseOf(new) # PhaseOf(old)
    THEN [entered |-> t,
          changes |-> IF PhaseOf(old) = "None" THEN 0 ELSE o.changes + 1]
    ELSE o

PhaseClasses == {"BreathingExercise", "PelvicFloorExercises",
                 "AlternateNostrilBreathing"}

NewPhase(c, t) ==
    IF c = "BreathingExercise" THEN BreathingExercise_init
    ELSE IF c = "PelvicFloorExercises" THEN PelvicFloorExercises_init(t)
    ELSE AlternateNostrilBreathing_init(t)

InitPhase ==
    /\ now = 0
    /\ \E c \in PhaseClasses : tracker = NewPhase(c, now)
    /\ ret = NoReturn
    /\ obs = [entered |-> now, changes |-> 0]

\* the number of raised fingers seen in a frame
FingerCounts == {1, 2}

BreathingExerciseFrame ==
    /\ tracker.cls = "BreathingExercise"
    /\ \E t \in PhaseClockReadings, n \in FingerCounts :
         LET res == track_breathing_exercise(tracker, n, t)
         IN  /\ tracker' = res.self
             /\ ret' = res.ret
             /\ now' = t
             /\ obs' = ObservePhase(obs, tracker, res.self, t)

PelvicFloorFrame ==
    /\ tracker.cls = "PelvicFloorExercises"
    /\ \E t \in PhaseClockReadings :
         LET res == track_kegel(tracker, t)
         IN  /\ tracker' = res.self
             /\ ret' = res.ret
             /\ now' = t
             /\ obs' = ObservePhase(obs, tracker, res.self, t)

AlternateNostrilPoll ==
    /\ tracker.cls = "AlternateNostrilBreathing"
    /\ \E t \in PhaseClockReadings :
         LET res == track_breathing_cycle(tracker, t)
         IN  /\ tracker' = res.self
             /\ ret' = res.ret
             /\ now' = t
             /\ obs' = ObservePhase(obs, tracker, res.self, t)

NextPhase == BreathingExerciseFrame \/ PelvicFloorFrame \/ AlternateNostrilPoll

SpecPhase == InitPhase /\ [][NextPhase]_vars

(***************************************************************************)
(* PrenatalYoga (fitness/exercises/prenatal_yoga_tracker18.py): a session  *)
(* of pelvic tilts or of guided breathing, clock readings in whole         *)
(* seconds.  The breathing tracker is polled again and again, and time     *)
(* advances between polls.                                                 *)
(***************************************************************************)
PrenatalYoga_pelvic_angle_threshold_max == 170
PrenatalYoga_pelvic_angle_threshold_min == 150
PrenatalYoga_inhale_duration == 4
PrenatalYoga_exhale_duration == 4
PrenatalYoga_rest_duration == 2

PrenatalYoga_init(exercise_type, t) ==
    [cls |-> "PrenatalYoga", exercise_type |-> exercise_type, counter |-> 0,
     stage |-> "Initial", last_update |-> t, current_cycle_start |-> t]

\* lines 55-63 and the return of line 69
track_pelvic_tilt(self, angle, current_time) ==
    LET new ==
          IF angle < PrenatalYoga_pelvic_angle_threshold_max
          THEN [self EXCEPT !.stage = "Tilted"]
          ELSE IF /\ PrenatalYoga_pelvic_angle_threshold_min < angle
                  /\ angle <= PrenatalYoga_pelvic_angle_threshold_max
                  /\ self.stage = "Tilted"
          THEN IF current_time - self.last_update > 1
               THEN [self EXCEPT !.stage = "Returning", !.counter = @ + 1,
                                 !.last_update = current_time]
               ELSE [self EXCEPT !.stage = "Returning"]
          ELSE IF angle >= PrenatalYoga_pelvic_angle_threshold_min
          THEN [self EXCEPT !.stage = "Neutral"]
          ELSE self
    IN  [self |-> new,
         ret |-> [call |-> "track_pelvic_tilt", counter |-> new.counter,
                  stage |-> new.stage, angle |-> angle]]

\* lines 74-92 and the return of line 110
track_breathing(self, current_time) ==
    LET elapsed_time == current_time - self.current_cycle_start
        new ==
          IF self.stage = "Rest"
               /\ elapsed_time >= PrenatalYoga_rest_duration
          THEN [self EXCEPT !.stage = "Inhale",
                            !.current_cycle_start = current_time]
          ELSE IF self.stage = "Inhale"
                    /\ elapsed_time >= PrenatalYoga_inhale_duration
          THEN [self EXCEPT !.stage = "Exhale",
                            !.current_cycle_start = current_time]
          ELSE IF self.stage = "Exhale"
                    /\ elapsed_time >= PrenatalYoga_exhale_duration
          THEN [self EXCEPT !.stage = "Rest",
                            !.current_cycle_start = current_time,
                            !.counter = @ + 1,
                            !.last_update = current_time]
          ELSE self
    IN  [self |-> new,
         ret |-> [call |-> "track_breathing", counter |-> new.counter,
                  stage |-> new.stage,
                  elapsed_time |-> IF new = self THEN elapsed_time ELSE 0]]

PrenatalExerciseTypes == {"pelvic_tilt", "breathing"}

InitPrenatal ==
    /\ now = 0
    /\ \E e \in PrenatalExerciseTypes : tracker = PrenatalYoga_init(e, now)
    /\ ret = NoReturn
    /\ obs = [frame |-> "none"]

\* pelvic angles of a frame
PelvicAngles == {160, 170, 175}

PrenatalPelvicTiltFrame ==
    /\ tracker.exercise_type = "pelvic_tilt"
    /\ tracker.counter < MaxReps
    /\ \E t \in PhaseClockReadings, angle \in PelvicAngles :
         LET res == track_pelvic_tilt(tracker, angle, t)
         IN  /\ tracker' = res.self
             /\ ret' = res.ret
             /\ now' = t
    /\ UNCHANGED obs

\* one poll of the breathing guide; the clock has advanced since the last
PrenatalBreathingPoll ==
    /\ tracker.exercise_type = "breathing"
    /\ tracker.counter < MaxReps
    /\ \E t \in PhaseClockReadings :
         LET res == track_breathing(tracker, t)
         IN  /\ t > now
             /\ tracker' = res.self
             /\ ret' = res.ret
             /\ now' = t
    /\ UNCHANGED obs

NextPrenatal == PrenatalPelvicTiltFrame \/ PrenatalBreathingPoll

\* the breathing guide is polled as long as the session lasts
SpecPrenatal ==
    InitPrenatal /\ [][NextPrenatal]_vars /\ WF_vars(PrenatalBreathingPoll)

(***************************************************************************)
(* SeatedMarching alone, with an observer of the two knees.  A knee is up  *)
(* once its angle is below knee_angle_threshold_raised and down again once *)
(* it is above knee_angle_threshold_lowered; a lift is an up followed by a *)
(* down.  right_lifts and left_lifts are the lifts completed since the     *)
(* counter last rose (the frame of the rise closes the interval), credited *)
(* is what each knee had done in the interval the last rise closed.        *)
(***************************************************************************)
KneePhase(phase, angle) ==
    IF angle < knee_angle_threshold_raised THEN "up"
    ELSE IF angle > knee_angle_threshold_lowered THEN "down"
    ELSE phase

LiftDone(phase, angle) ==
    phase = "up" /\ angle > knee_angle_threshold_lowered

NewMarchObs ==
    [right_phase |-> "down", left_phase |-> "down",
     right_lifts |-> 0, left_lifts |-> 0,
     credited |-> [right |-> 0, left |-> 0]]

ObserveMarch(o, old, new, rk, lk) ==
    LET r == IF LiftDone(o.right_phase, rk)
             THEN Min2(o.right_lifts + 1, MaxReps) ELSE o.right_lifts
        l == IF LiftDone(o.left_phase, lk)
             THEN Min2(o.left_lifts + 1, MaxReps) ELSE o.left_lifts
        rose == new.counter > old.counter
    IN  [right_phase |-> KneePhase(o.right_phase, rk),
         left_phase  |-> KneePhase(o.left_phase, lk),
         right_lifts |-> IF rose THEN 0 ELSE r,
         left_lifts  |-> IF rose THEN 0 ELSE l,
         credited    |-> IF rose THEN [right |-> r, left |-> l]
                         ELSE o.credited]

InitMarch ==
    /\ now = 0
    /\ tracker = SeatedMarching_init(now)
    /\ ret = NoReturn
    /\ obs = NewMarchObs

MarchFrame ==
    /\ tracker.counter < MaxReps
    /\ \E rk \in KneeAngles, lk \in KneeAngles, t \in ClockReadings :
         LET new == track_marching(tracker, rk, lk, t)
         IN  /\ tracker' = new
             /\ now' = t
             /\ ret' = [call |-> "track_marching", counter |-> new.counter,
                        stage |-> new.stage, right_knee_angle |-> rk,
                        left_knee_angle |-> lk]
             /\ obs' = ObserveMarch(obs, tracker, new, rk, lk)

NextMarch == MarchFrame

SpecMarch == InitMarch /\ [][NextMarch]_vars

(***************************************************************************)
(* reset_session: a squat tracker is fed up to MaxPreReset frames, reset,  *)
(* and fed up to MaxPostReset frames more.  The observer constructs a      *)
(* second tracker at the reset and feeds it the same frames: twin is that  *)
(* tracker and twin_ret what its last call returned; used says that the    *)
(* tracker had left its constructed state when it was reset.               *)
(***************************************************************************)
MaxPreReset == 2
MaxPostReset == 3

\* reset_session without clearing the smoothing buffer
reset_session_keeps_history(self) ==
    [self EXCEPT !.counter = 0, !.stage = "up", !.previous_stage = "up",
                 !.form_score = 100, !.warnings = <<>>,
                 !.rep_in_progress = FALSE]

reset_session(self) ==
    [self EXCEPT !.counter = 0, !.stage = "up", !.previous_stage = "up",
                 !.form_score = 100, !.warnings = <<>>,
                 !.rep_in_progress = FALSE, !.angle_history = <<>>]

ResetFrames ==
    { SquatFrame(60, 60, 350, 100, 100),
      SquatFrame(120, 120, 300, 70, 100),
      SquatFrame(176, 176, 350, 100, 100) }

InitReset ==
    /\ now = 0
    /\ tracker = ImprovedSquatTracker_init
    /\ ret = NoReturn
    /\ obs = [reset |-> FALSE, used |-> FALSE, pre |-> 0, post |-> 0,
              twin |-> ImprovedSquatTracker_init, twin_ret |-> NoReturn]

ResetPreFrame ==
    /\ ~obs.reset
    /\ obs.pre < MaxPreReset
    /\ \E f \in ResetFrames :
         LET res == analyze_squat_form(tracker, f)
         IN  /\ tracker' = res.self
             /\ ret' = res.ret
             /\ obs' = [obs EXCEPT !.pre = obs.pre + 1]
    /\ UNCHANGED now

ResetSession ==
    /\ ~obs.reset
    /\ tracker' = reset_session(tracker)
    /\ ret' = NoReturn
    /\ obs' = [obs EXCEPT !.reset = TRUE,
                          !.used = tracker # ImprovedSquatTracker_init,
                          !.twin = ImprovedSquatTracker_init,
                          !.twin_ret = NoReturn]
    /\ UNCHANGED now

ResetPostFrame ==
    /\ obs.reset
    /\ obs.post < MaxPostReset
    /\ \E f \in ResetFrames :
         LET res  == analyze_squat_form(tracker, f)
             twin == analyze_squat_form(obs.twin, f)
         IN  /\ tracker' = res.self
             /\ ret' = res.ret
             /\ obs' = [obs EXCEPT !.post = obs.post + 1,
                                   !.twin = twin.self,
                                   !.twin_ret = twin.ret]
    /\ UNCHANGED now

NextReset == ResetPreFrame \/ ResetSession \/ ResetPostFrame

SpecReset == InitReset /\ [][NextReset]_vars

(***************************************************************************)
(* The pose-estimation endpoints of backend/main.py.  A handler's outcome  *)
(* is the HTTP status it answers with and what it did on the way: the temp *)
(* files video_handler created, the videos and the frames handed to the    *)
(* processing functions.  The server counts these over up to MaxRequests   *)
(* requests; the observer keeps the last request and its outcome.          *)
(***************************************************************************)
MaxRequests == 3

\* the keys of get_exercise_configurations()
get_exercise_configurations ==
    {"squat", "push_up", "hammer_curl", "chair_yoga", "breathing_exercise"}

Outcome(status, temp_files, videos, frames) ==
    [status |-> status, temp_files |-> temp_files, videos |-> videos,
     frames |-> frames]

\* get_current_user: the bearer token decodes to an active user, or 401
get_current_user(credentials) ==
    IF credentials = "valid" THEN 200 ELSE 401

\* video_handler.save_uploaded_video: validate_video_file rejects before the
\* temp file is made, validate_video_properties after
save_uploaded_video(video) ==
    IF video = "bad_type" THEN Outcome(400, 0, 0, 0)
    ELSE IF video = "bad_properties" THEN Outcome(400, 1, 0, 0)
    ELSE Outcome(200, 1, 0, 0)

\* analyze_video saving the upload before it validates the exercise type
analyze_video_validates_late(credentials, exercise_type, video, compress_video) ==
    IF get_current_user(credentials) # 200
    THEN Outcome(get_current_user(credentials), 0, 0, 0)
    ELSE LET saved == save_uploaded_video(video)
         IN  IF saved.status # 200 THEN saved
             ELSE IF exercise_type \notin get_exercise_configurations
             THEN Outcome(400, saved.temp_files, 0, 0)
             ELSE Outcome(200,
                          saved.temp_files + (IF compress_video THEN 1 ELSE 0),
                          1, 0)

analyze_video(credentials, exercise_type, video, compress_video) ==
    IF get_current_user(credentials) # 200
    THEN Outcome(get_current_user(credentials), 0, 0, 0)
    ELSE IF exercise_type \notin get_exercise_configurations
    THEN Outcome(400, 0, 0, 0)
    ELSE LET saved == save_uploaded_video(video)
         IN  IF saved.status # 200 THEN saved
             ELSE Outcome(200,
                          saved.temp_files + (IF compress_video THEN 1 ELSE 0),
                          1, 0)

\* frame_data is "missing" (empty or shorter than 10 characters), a "frame"
\* that process_frame_for_pose_analysis answers, or "failing" when it raises
analyze_frame(exercise_type, frame_data) ==
    IF exercise_type \notin get_exercise_configurations
    THEN Outcome(400, 0, 0, 0)
    ELSE IF frame_data = "missing" THEN Outcome(400, 0, 0, 0)
    ELSE IF frame_data = "failing" THEN Outcome(500, 0, 0, 1)
    ELSE Outcome(200, 0, 0, 1)

get_exercise_config(exercise_type) ==
    IF exercise_type \notin get_exercise_configurations
    THEN Outcome(404, 0, 0, 0)
    ELSE Outcome(200, 0, 0, 0)

\* exercise types a request names: two of the catalog, one unknown, one of
\* the catalog in another case
RequestedTypes == {"squat", "chair_yoga", "jumping_jack", "Squat"}

Credentials == {"valid", "invalid"}
Videos == {"video", "bad_type", "bad_properties"}
FrameData == {"frame", "missing", "failing"}

Api_init == [cls |-> "Api", requests |-> 0, temp_files |-> 0, videos |-> 0,
             frames |-> 0]

InitApi ==
    /\ now = 0
    /\ tracker = Api_init
    /\ ret = NoReturn
    /\ obs = [endpoint |-> "none"]

Serve(endpoint, exercise_type, credentials, out) ==
    /\ tracker' = [tracker EXCEPT !.requests = @ + 1,
                                  !.temp_files = @ + out.temp_files,
                                  !.videos = @ + out.videos,
                                  !.frames = @ + out.frames]
    /\ ret' = [call |-> endpoint, status |-> out.status]
    /\ obs' = [endpoint |-> endpoint, exercise_type |-> exercise_type,
               credentials |-> credentials, outcome |-> out]
    /\ UNCHANGED now

AnalyzeVideoRequest ==
    /\ tracker.requests < MaxRequests
    /\ \E c \in Credentials, e \in RequestedTypes, v \in Videos,
          z \in BOOLEAN :
         Serve("analyze_video", e, c, analyze_video(c, e, v, z))

AnalyzeFrameRequest ==
    /\ tracker.requests < MaxRequests
    /\ \E e \in RequestedTypes, f \in FrameData :
         Serve("analyze_frame", e, "none", analyze_frame(e, f))

ExerciseConfigRequest ==
    /\ tracker.requests < MaxRequests
    /\ \E e \in RequestedTypes :
         Serve("get_exercise_config", e, "none", get_exercise_config(e))

NextApi == AnalyzeVideoRequest \/ AnalyzeFrameRequest \/ ExerciseConfigRequest

SpecApi == InitApi /\ [][NextApi]_vars

(***************************************************************************)
(* A clock that does not run forwards: every frame reads any clock value,  *)
(* earlier or later than the frame before.  FootFlexes reads it in ticks,  *)
(* CalfStretches in seconds; the squat tracker reads no clock, its frames  *)
(* merely arrive at such times.  The observer keeps went_back (some frame  *)
(* read an earlier time than the frame before it), the signal's phase,     *)
(* transitions (the qualifying transitions so far: for FootFlexes the angle*)
(* above the extension threshold after it was below the curl threshold,    *)
(* for CalfStretches a step from "Holding Stretch" to "Stretch Complete")  *)
(* and rise, by how much the last frame raised the counter.                *)
(***************************************************************************)
SkewedReadings(c) ==
    IF c = "CalfStretches" THEN {0, 10, 20, 30, 45} ELSE 0 .. MaxTime

ClockClasses == {"FootFlexes", "CalfStretches", "ImprovedSquatTracker"}

NewClock(c, t) ==
    IF c = "FootFlexes" THEN FootFlexes_init(t)
    ELSE IF c = "CalfStretches" THEN CalfStretches_init(t)
    ELSE ImprovedSquatTracker_init

InitClock ==
    /\ \E c \in ClockClasses :
         /\ now \in SkewedReadings(c)
         /\ tracker = NewClock(c, now)
    /\ ret = NoReturn
    /\ obs = [went_back |-> FALSE, phase |-> "ready", transitions |-> 0,
              rise |-> 0]

ObserveClock(o, old, new, t, band, transition) ==
    [went_back   |-> o.went_back \/ t < now,
     phase       |-> SigPhase(o.phase, band),
     transitions |-> IF transition THEN o.transitions + 1
                     ELSE o.transitions,
     rise        |-> new.counter - old.counter]

SkewedFootFlexFrame ==
    /\ tracker.cls = "FootFlexes"
    /\ obs.transitions < MaxReps
    /\ \E angle \in FootAngles, t \in SkewedReadings(tracker.cls) :
         LET new  == track_foot_flex(tracker, angle, t)
             band == Band(angle, FootFlexes_angle_threshold_curl,
                          FootFlexes_angle_threshold_extend)
         IN  /\ tracker' = new
             /\ now' = t
             /\ ret' = [call |-> "track_foot_flex", counter |-> new.counter,
                        stage |-> new.stage, angle |-> angle]
             /\ obs' = ObserveClock(obs, tracker, new, t, band,
                                    CycleDone(obs.phase, band))

SkewedCalfStretchFrame ==
    /\ tracker.cls = "CalfStretches"
    /\ obs.transitions < MaxReps
    /\ \E angle \in CalfAngles, t \in SkewedReadings(tracker.cls) :
         LET new == track_stretch(tracker, angle, t)
         IN  /\ tracker' = new
             /\ now' = t
             /\ ret' = [call |-> "track_stretch", counter |-> new.counter,
                        stage |-> new.stage,
                        stretch_duration |-> new.stretch_duration,
                        angle |-> angle]
             /\ obs' = ObserveClock(obs, tracker, new, t, "none",
                                    /\ tracker.stage = "Holding Stretch"
                                    /\ new.stage = "Stretch Complete")

SkewedSquatFrame ==
    /\ tracker.cls = "ImprovedSquatTracker"
    /\ \E f \in ResetFrames, t \in SkewedReadings(tracker.cls) :
         LET res == analyze_squat_form(tracker, f)
         IN  /\ tracker' = res.self
             /\ now' = t
             /\ ret' = res.ret
             /\ obs' = ObserveClock(obs, tracker, res.self, t, "none", FALSE)

NextClock ==
    SkewedFootFlexFrame \/ SkewedCalfStretchFrame \/ SkewedSquatFrame

SpecClock == InitClock /\ [][NextClock]_vars

(***************************************************************************)
(* Trackers of a movement out and back: AnkleCircles, WallPushUpsTracker,  *)
(* PelvicTiltsTracker, BackExtensions and PrenatalYoga's pelvic tilt.      *)
(* Clock readings are whole seconds.  The observer keeps the measurements  *)
(* of the last frame: angle_left and angle_right (both the one angle of a  *)
(* tracker that reads one) and form_correct, the outcome of the form check *)
(* (TRUE for a tracker that has none).                                     *)
(***************************************************************************)
MaxCycleClock == 6
MaxCycleDt == 2

CycleClockReadings == { t \in now .. (now + MaxCycleDt) : t <= MaxCycleClock }

LastFrame(angle_left, angle_right, form_correct) ==
    [angle_left |-> angle_left, angle_right |-> angle_right,
     form_correct |-> form_correct]

\* ---- AnkleCircles (exercises/ankle_circles.py) ----
AnkleCircles_angle_threshold_forward == 160
AnkleCircles_angle_threshold_backward == 90

AnkleCircles_init(t) ==
    [cls |-> "AnkleCircles", counter |-> 0, stage |-> "Initial",
     last_counter_update |-> t, direction |-> "None",
     cycle_complete |-> FALSE]

\* lines 62-73
track_ankle_circles(self, angle_right, current_time) ==
    IF angle_right > AnkleCircles_angle_threshold_forward
         /\ self.stage # "Forward"
    THEN [self EXCEPT !.stage = "Forward", !.direction = "clockwise"]
    ELSE IF angle_right < AnkleCircles_angle_threshold_backward
              /\ self.stage = "Forward"
    THEN [self EXCEPT !.stage = "Backward", !.cycle_complete = TRUE]
    ELSE IF angle_right > AnkleCircles_angle_threshold_forward
              /\ self.stage = "Backward" /\ self.cycle_complete
    THEN IF current_time - self.last_counter_update > 1
         THEN [self EXCEPT !.stage = "Forward", !.counter = @ + 1,
                           !.last_counter_update = current_time,
                           !.cycle_complete = FALSE]
         ELSE [self EXCEPT !.stage = "Forward"]
    ELSE self

AnkleAngles == {80, 120, 170}

AnkleCirclesFrame ==
    /\ tracker.cls = "AnkleCircles"
    /\ tracker.counter < MaxReps
    /\ \E angle_right \in AnkleAngles, t \in CycleClockReadings :
         LET new == track_ankle_circles(tracker, angle_right, t)
         IN  /\ tracker' = new
             /\ now' = t
             /\ ret' = [call |-> "track_ankle_circles",
                        counter |-> new.counter, angle_right |-> angle_right,
                        stage |-> new.stage]
             /\ obs' = LastFrame(angle_right, angle_right, TRUE)

\* ---- WallPushUpsTracker (exercises/wall_push_ups_tracker.py) ----
WallPushUps_angle_threshold_up == 150
WallPushUps_angle_threshold_down == 90
WallPushUps_collapsed_angle == 60

WallPushUpsTracker_init(t) ==
    [cls |-> "WallPushUpsTracker", counter |-> 0, stage |-> "Initial",
     last_counter_update |-> t]

\* line 106
wall_form_correct(at_arm_length, angle_left, angle_right) ==
    /\ at_arm_length
    /\ angle_left > WallPushUps_collapsed_angle
    /\ angle_right > WallPushUps_collapsed_angle

\* lines 106-120
track_wall_push_ups(self, at_arm_length, angle_left, angle_right, current_time) ==
    IF wall_form_correct(at_arm_length, angle_left, angle_right)
    THEN IF angle_left > WallPushUps_angle_threshold_up
              /\ angle_right > WallPushUps_angle_threshold_up
         THEN [self EXCEPT !.stage = "Up"]
         ELSE IF angle_left < WallPushUps_angle_threshold_down
                   /\ angle_right < WallPushUps_angle_threshold_down
                   /\ self.stage = "Up"
         THEN [self EXCEPT !.stage = "Down"]
         ELSE IF angle_left > WallPushUps_angle_threshold_up
                   /\ angle_right > WallPushUps_angle_threshold_up
                   /\ self.stage = "Down"
         THEN IF current_time - self.last_counter_update > 1
              THEN [self EXCEPT !.counter = @ + 1,
                                !.last_counter_update = current_time,
                                !.stage = "Up"]
              ELSE self
         ELSE self
    ELSE [self EXCEPT !.stage = "Initial"]

ArmAnglesAtWall == {50, 80, 160}

WallPushUpsFrame ==
    /\ tracker.cls = "WallPushUpsTracker"
    /\ tracker.counter < MaxReps
    /\ \E at_arm_length \in BOOLEAN, angle_left \in ArmAnglesAtWall,
          angle_right \in ArmAnglesAtWall, t \in CycleClockReadings :
         LET new == track_wall_push_ups(tracker, at_arm_length, angle_left,
                                        angle_right, t)
             ok  == wall_form_correct(at_arm_length, angle_left, angle_right)
         IN  /\ tracker' = new
             /\ now' = t
             /\ ret' = [call |-> "track_wall_push_ups",
                        counter |-> new.counter, stage |-> new.stage,
                        form_correct |-> ok]
             /\ obs' = LastFrame(angle_left, angle_right, ok)

\* ---- PelvicTiltsTracker (exercises/pelvic_tilts_tracker.py) ----
PelvicTilts_angle_threshold_neutral == 120
PelvicTilts_angle_threshold_tilted == 90
PelvicTilts_knees_bent_min == 80
PelvicTilts_knees_bent_max == 110

PelvicTiltsTracker_init(t) ==
    [cls |-> "PelvicTiltsTracker", counter |-> 0, stage |-> "Initial",
     last_counter_update |-> t]

\* check_form: the angles it tests are the hip-knee-ankle angles of the same
\* landmarks track_pelvic_tilts measures
check_form(lying_down, hip_knee_angle_left, hip_knee_angle_right) ==
    /\ lying_down
    /\ PelvicTilts_knees_bent_min < hip_knee_angle_left
    /\ hip_knee_angle_left < PelvicTilts_knees_bent_max
    /\ PelvicTilts_knees_bent_min < hip_knee_angle_right
    /\ hip_knee_angle_right < PelvicTilts_knees_bent_max

\* lines 100-113
track_pelvic_tilts(self, lying_down, angle_left, angle_right, current_time) ==
    IF check_form(lying_down, angle_left, angle_right)
    THEN IF angle_left > PelvicTilts_angle_threshold_neutral
              /\ angle_right > PelvicTilts_angle_threshold_neutral
         THEN [self EXCEPT !.stage = "Neutral"]
         ELSE IF angle_left < PelvicTilts_angle_threshold_tilted
                   /\ angle_right < PelvicTilts_angle_threshold_tilted
                   /\ self.stage = "Neutral"
         THEN [self EXCEPT !.stage = "Tilted"]
         ELSE IF angle_left > PelvicTilts_angle_threshold_neutral
                   /\ angle_right > PelvicTilts_angle_threshold_neutral
                   /\ self.stage = "Tilted"
         THEN IF current_time - self.last_counter_update > 1
              THEN [self EXCEPT !.counter = @ + 1,
                                !.last_counter_update = current_time,
                                !.stage = "Neutral"]
              ELSE self
         ELSE self
    ELSE [self EXCEPT !.stage = "Initial"]

KneeAnglesLying == {85, 100, 130}

PelvicTiltsFrame ==
    /\ tracker.cls = "PelvicTiltsTracker"
    /\ tracker.counter < MaxReps
    /\ \E lying_down \in BOOLEAN, angle_left \in KneeAnglesLying,
          angle_right \in KneeAnglesLying, t \in CycleClockReadings :
         LET new == track_pelvic_tilts(tracker, lying_down, angle_left,
                                       angle_right, t)
             ok  == check_form(lying_down, angle_left, angle_right)
         IN  /\ tracker' = new
             /\ now' = t
             /\ ret' = [call |-> "track_pelvic_tilts",
                        counter |-> new.counter, stage |-> new.stage,
                        form_correct |-> ok]
             /\ obs' = LastFrame(angle_left, angle_right, ok)

\* ---- BackExtensions (fitness/exercises/back_extensions_tracker16.py) ----
BackExtensions_angle_threshold_max == 170
BackExtensions_angle_threshold_min == 150

BackExtensions_init(t) ==
    [cls |-> "BackExtensions", counter |-> 0, stage |-> "Initial",
     last_update |-> t]

\* lines 50-59
track_extension(self, angle, current_time) ==
    IF angle < BackExtensions_angle_threshold_max
    THEN [self EXCEPT !.stage = "Lifted"]
    ELSE IF /\ BackExtensions_angle_threshold_min < angle
            /\ angle <= BackExtensions_angle_threshold_max
            /\ self.stage = "Lifted"
    THEN IF current_time - self.last_update > 1
         THEN [self EXCEPT !.stage = "Lowering", !.counter = @ + 1,
                           !.last_update = current_time]
         ELSE [self EXCEPT !.stage = "Lowering"]
    ELSE IF angle >= BackExtensions_angle_threshold_min
    THEN [self EXCEPT !.stage = "Neutral"]
    ELSE self

BackAngles == {140, 160, 170, 175}

BackExtensionsFrame ==
    /\ tracker.cls = "BackExtensions"
    /\ tracker.counter < MaxReps
    /\ \E angle \in BackAngles, t \in CycleClockReadings :
         LET new == track_extension(tracker, angle, t)
         IN  /\ tracker' = new
             /\ now' = t
             /\ ret' = [call |-> "track_extension", counter |-> new.counter,
                        stage |-> new.stage, angle |-> angle]
             /\ obs' = LastFrame(angle, angle, TRUE)

\* ---- PrenatalYoga.track_pelvic_tilt ----
PelvicTiltFrame ==
    /\ tracker.cls = "PrenatalYoga"
    /\ tracker.counter < MaxReps
    /\ \E angle \in BackAngles, t \in CycleClockReadings :
         LET res == track_pelvic_tilt(tracker, angle, t)
         IN  /\ tracker' = res.self
             /\ now' = t
             /\ ret' = res.ret
             /\ obs' = LastFrame(angle, angle, TRUE)

CycleClasses ==
    {"AnkleCircles", "WallPushUpsTracker", "PelvicTiltsTracker",
     "BackExtensions", "PrenatalYoga"}

NewCycle(c, t) ==
    IF c = "AnkleCircles" THEN AnkleCircles_init(t)
    ELSE IF c = "WallPushUpsTracker" THEN WallPushUpsTracker_init(t)
    ELSE IF c = "PelvicTiltsTracker" THEN PelvicTiltsTracker_init(t)
    ELSE IF c = "BackExtensions" THEN BackExtensions_init(t)
    ELSE PrenatalYoga_init("pelvic_tilt", t)

InitCycle ==
    /\ now = 0
    /\ \E c \in CycleClasses : tracker = NewCycle(c, now)
    /\ ret = NoReturn
    /\ obs = LastFrame(0, 0, TRUE)

NextCycle ==
    \/ AnkleCirclesFrame
    \/ WallPushUpsFrame
    \/ PelvicTiltsFrame
    \/ BackExtensionsFrame
    \/ PelvicTiltFrame

SpecCycle == InitCycle /\ [][NextCycle]_vars

(***************************************************************************)
(* Trackers of held poses: CatCamelStretchTracker, ChairYogaTracker and    *)
(* HathaYogaTracker, clock readings in whole seconds.  The observer keeps  *)
(* pose, the pose the last frame showed ("Initial" for none), since, the   *)
(* reading of the first frame of the present unbroken run of frames        *)
(* showing that pose, run_counts, by how much the counter rose during the  *)
(* run, and counted, whether the last frame raised the counter.            *)
(***************************************************************************)
\* ---- CatCamelStretchTracker (exercises/cat_camel_stretch_tracker.py) ----
CatCamel_min_pose_duration == 2
CatCamel_angle_threshold_cat == 130
CatCamel_angle_threshold_camel == 100

CatCamelStretchTracker_init(t) ==
    [cls |-> "CatCamelStretchTracker", counter |-> 0, stage |-> "Initial",
     last_counter_update |-> t, pose_start_time |-> None]

\* the pose branch of lines 115-130 for the pose named
cat_camel_pose(self, pose, current_time) ==
    IF self.stage # pose
    THEN [self EXCEPT !.stage = pose, !.pose_start_time = current_time]
    ELSE IF current_time - self.pose_start_time >= CatCamel_min_pose_duration
              /\ current_time - self.last_counter_update > 1
    THEN [self EXCEPT !.counter = @ + 1,
                      !.last_counter_update = current_time]
    ELSE self

\* lines 114-136
track_cat_camel(self, form_correct, back_angle, current_time) ==
    IF form_correct /\ back_angle > CatCamel_angle_threshold_cat
    THEN cat_camel_pose(self, "Cat", current_time)
    ELSE IF form_correct /\ back_angle < CatCamel_angle_threshold_camel
    THEN cat_camel_pose(self, "Camel", current_time)
    ELSE [self EXCEPT !.stage = "Initial", !.pose_start_time = None]

\* the pose a frame shows to the Cat-Camel tracker
CatCamelPose(form_correct, back_angle) ==
    IF form_correct /\ back_angle > CatCamel_angle_threshold_cat THEN "Cat"
    ELSE IF form_correct /\ back_angle < CatCamel_angle_threshold_camel
    THEN "Camel"
    ELSE "Initial"

\* ---- ChairYogaTracker (exercises/chair_yoga_tracker.py) ----
ChairYogaTracker_min_pose_duration == 2

ChairYogaTracker_init(t) ==
    [cls |-> "ChairYogaTracker", counter |-> 0, stage |-> "Initial",
     pose_start_time |-> None, last_pose_update |-> t]

\* lines 120-131, current_pose being what detect_pose returned
ChairYogaTracker_track_chair_yoga(self, current_pose, current_time) ==
    IF current_pose # "Initial" /\ self.stage # current_pose
    THEN [self EXCEPT !.stage = current_pose,
                      !.pose_start_time = current_time]
    ELSE IF current_pose # "Initial" /\ self.stage = current_pose
    THEN IF current_time - self.pose_start_time
                >= ChairYogaTracker_min_pose_duration
              /\ current_time - self.last_pose_update > 1
         THEN [self EXCEPT !.counter = @ + 1,
                           !.last_pose_update = current_time]
         ELSE self
    ELSE [self EXCEPT !.stage = "Initial", !.pose_start_time = None]

\* ---- HathaYogaTracker (exercises/hatha_yoga_tracker.py) ----
HathaYoga_breathing_duration == 4
HathaYoga_pose_debounce == 2

HathaYogaTracker_init(t) ==
    [cls |-> "HathaYogaTracker", counter |-> 0, stage |-> "Initial",
     breathing_phase |-> "Inhale", breathing_timer |-> t,
     last_pose_update |-> t]

\* track_breathing, lines 73-80
hatha_track_breathing(self, current_time) ==
    IF current_time - self.breathing_timer >= HathaYoga_breathing_duration
    THEN [self EXCEPT !.breathing_phase =
                         IF @ = "Inhale" THEN "Exhale" ELSE "Inhale",
                      !.breathing_timer = current_time]
    ELSE self

\* lines 84-90 and 122-127
track_yoga_session(self, current_pose, current_time) ==
    LET b == hatha_track_breathing(self, current_time)
    IN  IF current_pose # "Initial" /\ b.stage # current_pose
             /\ current_time - b.last_pose_update > HathaYoga_pose_debounce
        THEN [b EXCEPT !.stage = current_pose, !.counter = @ + 1,
                       !.last_pose_update = current_time]
        ELSE b

NewPoseObs ==
    [pose |-> "Initial", since |-> None, run_counts |-> 0,
     counted |-> FALSE]

\* the reading at which the run of frames showing pose began, the frame at
\* reading t included
FirstSeen(o, pose, t) ==
    IF pose = "Initial" THEN None
    ELSE IF pose = o.pose THEN o.since
    ELSE t

ObservePose(o, old, new, t, pose) ==
    LET rise == new.counter - old.counter
    IN  [pose |-> pose,
         since |-> FirstSeen(o, pose, t),
         run_counts |-> IF pose # "Initial" /\ pose = o.pose
                        THEN o.run_counts + rise ELSE rise,
         counted |-> rise > 0]

PoseClasses ==
    {"CatCamelStretchTracker", "ChairYogaTracker", "HathaYogaTracker"}

NewPose(c, t) ==
    IF c = "CatCamelStretchTracker" THEN CatCamelStretchTracker_init(t)
    ELSE IF c = "ChairYogaTracker" THEN ChairYogaTracker_init(t)
    ELSE HathaYogaTracker_init(t)

InitPose ==
    /\ now = 0
    /\ \E c \in PoseClasses : tracker = NewPose(c, now)
    /\ ret = NoReturn
    /\ obs = NewPoseObs

BackCurveAngles == {90, 115, 140}

CatCamelFrame ==
    /\ tracker.cls = "CatCamelStretchTracker"
    /\ tracker.counter < MaxReps
    /\ \E form_correct \in BOOLEAN, back_angle \in BackCurveAngles,
          t \in CycleClockReadings :
         LET new == track_cat_camel(tracker, form_correct, back_angle, t)
         IN  /\ tracker' = new
             /\ now' = t
             /\ ret' = [call |-> "track_cat_camel", counter |-> new.counter,
                        stage |-> new.stage, form_correct |-> form_correct]
             /\ obs' = ObservePose(obs, tracker, new, t,
                                   CatCamelPose(form_correct, back_angle))

\* what detect_pose returns
ChairPoses == {"Initial", "Cat", "Cow", "KneeLiftLeft"}
HathaPoses == {"Initial", "Cat", "ChildsPose"}

ChairYogaTrackerFrame ==
    /\ tracker.cls = "ChairYogaTracker"
    /\ tracker.counter < MaxReps
    /\ \E current_pose \in ChairPoses, t \in CycleClockReadings :
         LET new == ChairYogaTracker_track_chair_yoga(tracker, current_pose, t)
         IN  /\ tracker' = new
             /\ now' = t
             /\ ret' = [call |-> "track_chair_yoga", counter |-> new.counter,
                        stage |-> new.stage,
                        pose_correct |-> current_pose # "Initial"]
             /\ obs' = ObservePose(obs, tracker, new, t, current_pose)

HathaYogaFrame ==
    /\ tracker.cls = "HathaYogaTracker"
    /\ tracker.counter < MaxReps
    /\ \E current_pose \in HathaPoses, t \in CycleClockReadings :
         LET new == track_yoga_session(tracker, current_pose, t)
         IN  /\ tracker' = new
             /\ now' = t
             /\ ret' = [call |-> "track_yoga_session",
                        counter |-> new.counter, stage |-> new.stage,
                        breathing_phase |-> new.breathing_phase]
             /\ obs' = ObservePose(obs, tracker, new, t, current_pose)

NextPose == CatCamelFrame \/ ChairYogaTrackerFrame \/ HathaYogaFrame

SpecPose == InitPose /\ [][NextPose]_vars

(***************************************************************************)
(* Jitter: a stream of frames sent to the backend whose hips stay within   *)
(* JitterAmplitude hundredths of one height, the knees at y = 60.  The     *)
(* client counts as scripts/test-squat-analysis.py does: one rep whenever  *)
(* the reported stage changes from "down" to "up".  The observer keeps the *)
(* centre of the jitter and the stages reported so far.                    *)
(***************************************************************************)
JitterAmplitude == 1

\* the hips' mean y of the centre of a stream, in hundredths
JitterCentres == 45 .. 75

\* test_squat_rep_counting, lines 153-176: the client's count
RepCounting_init == [cls |-> "RepCounting", rep_count |-> 0,
                     previous_stage |-> "None"]

rep_counting(self, current_stage) ==
    [self EXCEPT !.rep_count =
                    IF self.previous_stage = "down" /\ current_stage = "up"
                    THEN @ + 1 ELSE @,
                 !.previous_stage = current_stage]

InitJitter ==
    /\ now = 0
    /\ tracker = RepCounting_init
    /\ ret = NoReturn
    /\ \E c \in JitterCentres : obs = [centre |-> c, stages |-> {}]

JitterFrame ==
    /\ tracker.rep_count < MaxReps
    /\ \E hy \in (obs.centre - JitterAmplitude) ..
                   (obs.centre + JitterAmplitude), vis \in Visibilities :
         LET res == process_frame_pose(33, vis,
                        Keypoints(hy, 0, <<40, 60>>, 0, 0, 40, 0))
         IN  /\ ret' = res
             /\ tracker' = rep_counting(tracker, res.stage)
             /\ obs' = [obs EXCEPT !.stages = @ \cup {res.stage}]
    /\ UNCHANGED now

NextJitter == JitterFrame

SpecJitter == InitJitter /\ [][NextJitter]_vars

(***************************************************************************)
(* YogaBreathing (fitness/exercises/yoga_breathing_tracker.py), clock      *)
(* readings in whole seconds.  The code reads the list distances only      *)
(* through max() and min(): the model keeps these two in its place.  The   *)
(* thresholds are kept a hundredfold (max * 95 for max * 0.95), and a      *)
(* distance is compared with them a hundredfold.                           *)
(***************************************************************************)
MaxBreathClock == 6
MaxBreathDt == 3

BreathClockReadings ==
    { t \in now .. (now + MaxBreathDt) : t <= MaxBreathClock }

YogaBreathing_calibration_frames == 30
YogaBreathing_max_percent == 95
YogaBreathing_min_percent == 105
YogaBreathing_min_cycle == 2
YogaBreathing_pace_window == 60

YogaBreathing_init(t) ==
    [cls |-> "YogaBreathing", breath_counter |-> 0, stage |-> "Initial",
     distance_threshold_max |-> None, distance_threshold_min |-> None,
     last_update |-> t, pace |-> Frac(0, 1), start_time |-> t,
     breath_times |-> <<>>, distances_max |-> None, distances_min |-> None,
     frame_count |-> 0]

CalibratingStage(n) ==
    "Calibrating (" \o ToString(n) \o "/"
        \o ToString(YogaBreathing_calibration_frames) \o ")"

\* lines 48-56
yoga_calibrate(self, distance) ==
    LET n  == self.frame_count + 1
        hi == IF self.frame_count = 0 THEN distance
              ELSE Max2(self.distances_max, distance)
        lo == IF self.frame_count = 0 THEN distance
              ELSE Min2(self.distances_min, distance)
        c  == [self EXCEPT !.distances_max = hi, !.distances_min = lo,
                           !.frame_count = n, !.stage = CalibratingStage(n)]
    IN  IF n = YogaBreathing_calibration_frames
        THEN [c EXCEPT !.distance_threshold_max =
                          hi * YogaBreathing_max_percent,
                       !.distance_threshold_min =
                          lo * YogaBreathing_min_percent]
        ELSE c

\* lines 66-73: the breaths of the last minute and the pace over them
yoga_pace(self, current_time) ==
    LET times  == Append(self.breath_times, current_time)
        recent == SelectSeq(times,
                    LAMBDA t : current_time - t < YogaBreathing_pace_window)
        span   == recent[Len(recent)] - recent[1]
    IN  IF Len(times) > 1
        THEN [breath_times |-> recent,
              pace |-> IF Len(recent) >= 2
                       THEN IF span > 0
                            THEN Frac((Len(recent) - 1) * 60, span)
                            ELSE Frac(0, 1)
                       ELSE self.pace]
        ELSE [breath_times |-> times, pace |-> self.pace]

\* lines 48-80
YogaBreathing_track_breathing(self, distance, current_time) ==
    IF self.frame_count < YogaBreathing_calibration_frames
    THEN yoga_calibrate(self, distance)
    ELSE IF distance * 100 > self.distance_threshold_max
              /\ self.stage # "Inhale"
    THEN [self EXCEPT !.stage = "Inhale"]
    ELSE IF distance * 100 < self.distance_threshold_min
              /\ self.stage = "Inhale"
    THEN IF current_time - self.last_update > YogaBreathing_min_cycle
         THEN LET p == yoga_pace(self, current_time)
              IN  [self EXCEPT !.stage = "Exhale", !.breath_counter = @ + 1,
                               !.last_update = current_time,
                               !.breath_times = p.breath_times,
                               !.pace = p.pace]
         ELSE [self EXCEPT !.stage = "Exhale"]
    ELSE self

\* shoulder distances of a frame, in pixels
ShoulderDistances == {100, 104, 120}

InitBreath ==
    /\ now = 0
    /\ tracker = YogaBreathing_init(now)
    /\ ret = NoReturn
    /\ obs = [frame |-> "none"]

YogaBreathingFrame ==
    /\ tracker.breath_counter < MaxReps
    /\ \E distance \in ShoulderDistances, t \in BreathClockReadings :
         LET new == YogaBreathing_track_breathing(tracker, distance, t)
         IN  /\ tracker' = new
             /\ now' = t
             /\ ret' = [call |-> "track_breathing",
                        breath_counter |-> new.breath_counter,
                        stage |-> new.stage, pace |-> new.pace]
             /\ obs' = [frame |-> IF tracker.frame_count
                                      < YogaBreathing_calibration_frames
                                  THEN "calibration" ELSE "tracking"]

NextBreath == YogaBreathingFrame

SpecBreath == InitBreath /\ [][NextBreath]_vars

(***************************************************************************)
(* VideoFileHandler (backend/file_handler.py) and the handlers of          *)
(* backend/main.py that use it.  Two threads run: "loop", the event loop   *)
(* that serves the async handlers one after the other, and "cleaner", the  *)
(* daemon thread cleanup_old_files started by __init__.  A step is one     *)
(* access to shared state: the file system (disk), temp_files or the lock. *)
(* The only await inside a handler (file.read(), line 197) is reached with *)
(* the lock free and the new file not yet tracked, so a handler is run to  *)
(* its end before the loop starts the next one.                            *)
(* Time passes in sleeps of the cleaner (30 * 60 s): a file's age counts   *)
(* them since its last write, and is kept up to MaxAge, beyond the cutoff. *)
(* obs holds, for a step that reads or changes temp_files, the thread, the *)
(* access and the holder of the lock at that moment.                       *)
(***************************************************************************)
MaxFileRequests == 2
MaxAge == 5

\* 2 * 3600 s, in sleeps of 30 * 60 s
CleanupCutoff == 4

SUPPORTED_FORMATS ==
    [ct \in {"video/mp4", "video/avi", "video/mov", "video/quicktime",
             "video/x-msvideo"} |->
        CASE ct = "video/mp4" -> ".mp4"
          [] ct \in {"video/avi", "video/x-msvideo"} -> ".avi"
          [] OTHER -> ".mov"]

\* content types of an upload: two supported ones and one that is not
ContentTypes == {"video/mp4", "video/avi", "image/png"}

\* a temp file's name: unique per request, with the suffix of its format
NoPath == [n |-> 0, suffix |-> "", compressed |-> FALSE]

\* input_path.replace('.mp4', '_compressed.mp4')
compressed_name(input_path) ==
    IF input_path.suffix = ".mp4"
    THEN [input_path EXCEPT !.compressed = TRUE]
    ELSE input_path

exists(t, path) == \E f \in t.disk : f.path = path

mtime_age(t, path) == (CHOOSE f \in t.disk : f.path = path).age

unlink(t, path) == [t EXCEPT !.disk = {f \in @ : f.path # path}]

\* a file is created, or written anew
write_file(t, path) ==
    [t EXCEPT !.disk = {f \in @ : f.path # path}
                           \cup {[path |-> path, age |-> 0]}]

\* a cleaner to which no file is ever old
older_than_cutoff_never(age) == FALSE

\* file_mtime < cutoff_time
older_than_cutoff(age) == age > CleanupCutoff

LoopIdle ==
    [pc |-> "idle", handler |-> "none", compress |-> FALSE,
     temp_file |-> NoPath, temp_video_path |-> NoPath,
     compressed_video_path |-> NoPath, status |-> 0, file_path |-> NoPath,
     rest |-> <<>>, files |-> {}, back |-> "idle"]

CleanerStart ==
    [pc |-> "snap_lock", files |-> {}, file_path |-> NoPath,
     back |-> "check"]

VideoFileHandler_init ==
    [cls |-> "VideoFileHandler", temp_files |-> {}, _cleanup_lock |-> "free",
     disk |-> {}, requests |-> 0,
     threads |-> [loop |-> LoopIdle, cleaner |-> CleanerStart]]

At(th, pc) == tracker.threads[th].pc = pc

Goto(t, th, pc) == [t EXCEPT !.threads[th].pc = pc]

\* a with statement that does not take the lock
acquire_cleanup_lock_skipped(t, th) == t

\* with self._cleanup_lock: entry and exit
acquire_cleanup_lock(t, th) == [t EXCEPT !._cleanup_lock = th]

\* a with statement that keeps the lock at its exit
release_cleanup_lock_forgotten(t, th) == t

release_cleanup_lock(t, th) == [t EXCEPT !._cleanup_lock = "free"]

\* the handler answers: the loop is idle again
Respond(t, status) ==
    [t EXCEPT !.threads.loop =
        [LoopIdle EXCEPT !.handler = t.threads.loop.handler,
                         !.status = status]]

\* the last step read or changed temp_files (op), or did not
NoAccess == [thread |-> "none", op |-> "none", holder |-> "free"]

Step(th, op, new) ==
    /\ tracker' = new
    /\ obs' = IF op = "none" THEN NoAccess
              ELSE [thread |-> th, op |-> op,
                    holder |-> tracker._cleanup_lock]
    /\ ret' = IF th # "loop" THEN ret
              ELSE IF new.threads.loop.pc = "idle"
              THEN [call |-> new.threads.loop.handler,
                    status |-> new.threads.loop.status]
              ELSE NoReturn
    /\ UNCHANGED now

InitFiles ==
    /\ now = 0
    /\ tracker = VideoFileHandler_init
    /\ ret = NoReturn
    /\ obs = NoAccess

\* save_uploaded_video, lines 182-193: validate_video_file, then the temp
\* file is made
save_uploaded_video_enter(t, content_type) ==
    IF content_type \notin DOMAIN SUPPORTED_FORMATS
    THEN Respond(t, 400)
    ELSE LET name == [n |-> t.requests,
                      suffix |-> SUPPORTED_FORMATS[content_type],
                      compressed |-> FALSE]
         IN  Goto([write_file(t, name) EXCEPT
                      !.threads.loop.temp_file = name],
                  "loop", "save_write")

\* analyze_video, lines 1242-1254
AnalyzeVideoCall ==
    /\ At("loop", "idle")
    /\ tracker.requests < MaxFileRequests
    /\ \E exercise_type \in {"squat", "jumping_jack"},
          content_type \in ContentTypes, compress_video \in BOOLEAN :
         LET t == [tracker EXCEPT
                     !.requests = @ + 1,
                     !.threads.loop.handler = "analyze_video",
                     !.threads.loop.compress = compress_video]
         IN  Step("loop", "none",
                  IF exercise_type \notin get_exercise_configurations
                  THEN Respond(t, 400)
                  ELSE save_uploaded_video_enter(t, content_type))

\* validate_video_upload, lines 1423-1427
ValidateVideoUploadCall ==
    /\ At("loop", "idle")
    /\ tracker.requests < MaxFileRequests
    /\ \E content_type \in ContentTypes :
         LET t == [tracker EXCEPT
                     !.requests = @ + 1,
                     !.threads.loop.handler = "validate_video_upload"]
         IN  Step("loop", "none", save_uploaded_video_enter(t, content_type))

\* cleanup_temp_files, the admin endpoint (main.py line 1495)
CleanupTempFilesCall ==
    /\ At("loop", "idle")
    /\ tracker.requests < MaxFileRequests
    /\ Step("loop", "none",
            Goto([tracker EXCEPT !.requests = @ + 1,
                                 !.threads.loop.handler = "cleanup_temp_files"],
                 "loop", "all_lock"))

\* save_uploaded_video, lines 195-225
SaveUploadedVideo ==
    LET me == tracker.threads.loop
        returned == [tracker EXCEPT
                        !.threads.loop.temp_video_path = me.temp_file]
    IN
    \/ /\ At("loop", "save_write")                     \* lines 197-200
       /\ \E written \in BOOLEAN :
            Step("loop", "none",
                 IF written THEN Goto(tracker, "loop", "save_lock")
                 ELSE Goto([tracker EXCEPT !.threads.loop.status = 500],
                           "loop", "save_unlink"))
    \/ /\ At("loop", "save_lock")                      \* line 203
       /\ tracker._cleanup_lock = "free"
       /\ Step("loop", "none",
               Goto(acquire_cleanup_lock(tracker, "loop"), "loop", "save_add"))
    \/ /\ At("loop", "save_add")                       \* line 204
       /\ Step("loop", "add",
               Goto([tracker EXCEPT !.temp_files = @ \cup {me.temp_file}],
                    "loop", "save_unlock"))
    \/ /\ At("loop", "save_unlock")
       /\ Step("loop", "none",
               Goto(release_cleanup_lock(tracker, "loop"),
                    "loop", "save_properties"))
    \/ /\ At("loop", "save_properties")                \* lines 207-210
       /\ \E valid \in BOOLEAN :
            Step("loop", "none",
                 IF ~valid
                 THEN Goto([tracker EXCEPT !.threads.loop.status = 400],
                           "loop", "save_unlink")
                 ELSE IF me.handler = "validate_video_upload"
                 THEN Goto(returned, "loop", "properties")
                 ELSE IF me.compress
                 THEN Goto(returned, "loop", "compress_write")
                 ELSE Goto(returned, "loop", "process"))
    \/ /\ At("loop", "save_unlink")                    \* lines 212-225
       \* the caller's temp_video_path is still None: its finally block
       \* cleans nothing
       /\ Step("loop", "none",
               Respond(unlink(tracker, me.temp_file), me.status))

\* compress_video, lines 237-289; the writer may fail before or after it has
\* made the output file
CompressVideo ==
    LET me == tracker.threads.loop
        output_path == compressed_name(me.temp_video_path)
        failed == [tracker EXCEPT !.threads.loop.compressed_video_path =
                                       me.temp_video_path]
    IN
    \/ /\ At("loop", "compress_write")                 \* lines 237-278
       /\ \E outcome \in {"written", "fails_early", "fails_late"} :
            Step("loop", "none",
                 CASE outcome = "written" ->
                        Goto(write_file(tracker, output_path),
                             "loop", "compress_lock")
                   [] outcome = "fails_early" ->
                        Goto(failed, "loop", "process")
                   [] outcome = "fails_late" ->
                        Goto(write_file(failed, output_path),
                             "loop", "process"))
    \/ /\ At("loop", "compress_lock")                  \* line 281
       /\ tracker._cleanup_lock = "free"
       /\ Step("loop", "none",
               Goto(acquire_cleanup_lock(tracker, "loop"),
                    "loop", "compress_add"))
    \/ /\ At("loop", "compress_add")                   \* line 282
       /\ Step("loop", "add",
               Goto([tracker EXCEPT !.temp_files = @ \cup {output_path}],
                    "loop", "compress_unlock"))
    \/ /\ At("loop", "compress_unlock")                \* lines 284-285
       /\ Step("loop", "none",
               Goto([release_cleanup_lock(tracker, "loop") EXCEPT
                        !.threads.loop.compressed_video_path = output_path],
                    "loop", "process"))

\* the body of the handler after the upload is saved, and its finally block:
\* analyze_video lines 1262-1280, validate_video_upload lines 1429-1459
HandlerBody ==
    LET me == tracker.threads.loop
    IN
    \/ /\ At("loop", "process") \/ At("loop", "properties")
       /\ \E status \in {200, 500} :
            Step("loop", "none",
                 Goto([tracker EXCEPT
                          !.threads.loop.status = status,
                          !.threads.loop.rest =
                             <<me.temp_video_path>> \o
                             (IF me.compressed_video_path # NoPath
                              THEN <<me.compressed_video_path>> ELSE <<>>)],
                      "loop", "finally"))
    \/ /\ At("loop", "finally")
       /\ Step("loop", "none",
               IF me.rest = <<>>
               THEN Respond(tracker, me.status)
               ELSE Goto([tracker EXCEPT
                             !.threads.loop.file_path = Head(me.rest),
                             !.threads.loop.rest = Tail(me.rest),
                             !.threads.loop.back = "finally"],
                         "loop", "cf_exists"))

\* cleanup_file, lines 297-306, run by thread th
cleanup_file(th) ==
    LET me == tracker.threads[th]
    IN
    \/ /\ At(th, "cf_exists")                          \* line 298
       /\ Step(th, "none",
               IF exists(tracker, me.file_path)
               THEN Goto(tracker, th, "cf_unlink")
               ELSE Goto(tracker, th, "cf_lock"))
    \/ /\ At(th, "cf_unlink")                          \* line 299
       \* unlink raises when the file went away since line 298: the except
       \* clause of line 305 ends the call
       /\ Step(th, "none",
               IF exists(tracker, me.file_path)
               THEN Goto(unlink(tracker, me.file_path), th, "cf_lock")
               ELSE Goto(tracker, th, me.back))
    \/ /\ At(th, "cf_lock")                            \* line 302
       /\ tracker._cleanup_lock = "free"
       /\ Step(th, "none",
               Goto(acquire_cleanup_lock(tracker, th), th, "cf_discard"))
    \/ /\ At(th, "cf_discard")                         \* line 303
       /\ Step(th, "discard",
               Goto([tracker EXCEPT !.temp_files = @ \ {me.file_path}],
                    th, "cf_unlock"))
    \/ /\ At(th, "cf_unlock")
       /\ Step(th, "none",
               Goto(release_cleanup_lock(tracker, th), th, me.back))

\* cleanup_all_temp_files, lines 310-320
CleanupAllTempFiles ==
    LET me == tracker.threads.loop
    IN
    \/ /\ At("loop", "all_lock")                       \* line 310
       /\ tracker._cleanup_lock = "free"
       /\ Step("loop", "none",
               Goto(acquire_cleanup_lock(tracker, "loop"), "loop", "all_copy"))
    \/ /\ At("loop", "all_copy")                       \* lines 311-312
       /\ Step("loop", "copy_clear",
               Goto([tracker EXCEPT !.threads.loop.files = tracker.temp_files,
                                    !.temp_files = {}],
                    "loop", "all_unlock"))
    \/ /\ At("loop", "all_unlock")
       /\ Step("loop", "none",
               Goto(release_cleanup_lock(tracker, "loop"),
                    "loop", "all_unlink"))
    \/ /\ At("loop", "all_unlink")                     \* lines 314-320
       /\ IF me.files = {}
          THEN Step("loop", "none", Respond(tracker, 200))
          ELSE \E file_path \in me.files :
                 Step("loop", "none",
                      [unlink(tracker, file_path) EXCEPT
                          !.threads.loop.files = @ \ {file_path}])

\* cleanup_old_files, lines 325-347: one pass over a copy of temp_files
CleanupOldFiles ==
    LET me == tracker.threads.cleaner
    IN
    \/ /\ At("cleaner", "snap_lock")                   \* line 330
       /\ tracker._cleanup_lock = "free"
       /\ Step("cleaner", "none",
               Goto(acquire_cleanup_lock(tracker, "cleaner"),
                    "cleaner", "snap_copy"))
    \/ /\ At("cleaner", "snap_copy")                   \* line 331
       /\ Step("cleaner", "copy",
               Goto([tracker EXCEPT
                        !.threads.cleaner.files = tracker.temp_files],
                    "cleaner", "snap_unlock"))
    \/ /\ At("cleaner", "snap_unlock")
       /\ Step("cleaner", "none",
               Goto(release_cleanup_lock(tracker, "cleaner"),
                    "cleaner", "check"))
    \/ /\ At("cleaner", "check")                       \* lines 333-335
       /\ IF me.files = {}
          THEN Step("cleaner", "none",
                    Goto([tracker EXCEPT
                             !.threads.cleaner.file_path = NoPath],
                         "cleaner", "sleep"))
          ELSE \E file_path \in me.files :
                 LET t == [tracker EXCEPT
                             !.threads.cleaner.files = @ \ {file_path},
                             !.threads.cleaner.file_path = file_path]
                 IN  Step("cleaner", "none",
                          IF exists(tracker, file_path)
                          THEN Goto(t, "cleaner", "check_mtime")
                          ELSE Goto(t, "cleaner", "gone_lock"))
    \/ /\ At("cleaner", "check_mtime")                 \* lines 336-338
       \* getmtime raises when the file went away since line 335: the
       \* except clause of line 343 goes on with the next file
       /\ Step("cleaner", "none",
               IF ~exists(tracker, me.file_path)
               THEN Goto(tracker, "cleaner", "check")
               ELSE IF older_than_cutoff(mtime_age(tracker, me.file_path))
               THEN Goto([tracker EXCEPT !.threads.cleaner.back = "check"],
                         "cleaner", "cf_exists")
               ELSE Goto(tracker, "cleaner", "check"))
    \/ /\ At("cleaner", "gone_lock")                   \* line 341
       /\ tracker._cleanup_lock = "free"
       /\ Step("cleaner", "none",
               Goto(acquire_cleanup_lock(tracker, "cleaner"),
                    "cleaner", "gone_discard"))
    \/ /\ At("cleaner", "gone_discard")                \* line 342
       /\ Step("cleaner", "discard",
               Goto([tracker EXCEPT !.temp_files = @ \ {me.file_path}],
                    "cleaner", "gone_unlock"))
    \/ /\ At("cleaner", "gone_unlock")
       /\ Step("cleaner", "none",
               Goto(release_cleanup_lock(tracker, "cleaner"),
                    "cleaner", "check"))

\* time.sleep(30 * 60), line 347: half an hour passes, every file is half an
\* hour older and the sleeping cleaner wakes
HalfHourPasses ==
    LET aged == [tracker EXCEPT
                    !.disk = {[f EXCEPT !.age = Min2(f.age + 1, MaxAge)] :
                                f \in @}]
    IN  Step("clock", "none",
             IF At("cleaner", "sleep")
             THEN Goto(aged, "cleaner", "snap_lock")
             ELSE aged)

LoopStep ==
    \/ SaveUploadedVideo
    \/ CompressVideo
    \/ HandlerBody
    \/ cleanup_file("loop")
    \/ CleanupAllTempFiles

CleanerStep == CleanupOldFiles \/ cleanup_file("cleaner")

NextFiles ==
    \/ AnalyzeVideoCall
    \/ ValidateVideoUploadCall
    \/ CleanupTempFilesCall
    \/ LoopStep
    \/ CleanerStep
    \/ HalfHourPasses

SpecFiles == InitFiles /\ [][NextFiles]_vars

\* the cleaner thread runs on, time passes, and a thread that holds the lock
\* runs on to its release; a handler may stay in its body for any time
MaxFairRequests == 1

NextFilesFair == NextFiles /\ tracker'.requests <= MaxFairRequests

SpecFilesFair ==
    /\ InitFiles
    /\ [][NextFilesFair]_vars
    /\ WF_vars(CleanerStep)
    /\ WF_vars(HalfHourPasses)
    /\ WF_vars(LoopStep /\ tracker._cleanup_lock = "loop")

(***************************************************************************)
(* Frames without a detection in between the frames of a squat session.    *)
(* The observer runs a twin tracker that is given the detected frames only *)
(* and keeps what the twin returned; in_rep tells that some frame without  *)
(* a detection came while a repetition was in progress.                    *)
(***************************************************************************)
\* a tracker that takes the stage it reports for such a frame
no_pose_frame_takes_stage(self) == [self EXCEPT !.stage = "up"]

\* lines 75-76: the tracker after a frame with no landmarks, or fewer than 33
no_pose_frame(self) == self

InitDropout ==
    /\ now = 0
    /\ tracker = ImprovedSquatTracker_init
    /\ ret = NoReturn
    /\ obs = [last |-> "none", in_rep |-> FALSE,
              twin |-> ImprovedSquatTracker_init, twin_ret |-> NoReturn]

DetectedFrame ==
    /\ tracker.counter < MaxReps
    /\ \E f \in ResetFrames :
         LET res  == analyze_squat_form(tracker, f)
             twin == analyze_squat_form(obs.twin, f)
         IN  /\ tracker' = res.self
             /\ ret' = res.ret
             /\ obs' = [obs EXCEPT !.last = "detected", !.twin = twin.self,
                                   !.twin_ret = twin.ret]
    /\ UNCHANGED now

DropoutFrame ==
    /\ tracker' = no_pose_frame(tracker)
    /\ ret' = analyze_squat_form_no_pose
    /\ obs' = [obs EXCEPT !.last = "no_pose",
                          !.in_rep = @ \/ tracker.rep_in_progress]
    /\ UNCHANGED now

NextDropout == DetectedFrame \/ DropoutFrame

SpecDropout == InitDropout /\ [][NextDropout]_vars

(***************************************************************************)
(* The start timestamp of the hold-timing trackers, clock readings in      *)
(* whole seconds.  For each frame the observer holds whether the frame     *)
(* computed a duration as current_time minus the start timestamp, and the  *)
(* value the timestamp had when it was subtracted.                         *)
(***************************************************************************)
StartRead(computed, start) == [computed |-> computed, start |-> start]

\* the duration taken from the stored start_time, whatever the stage
CalfStretches_start_read_stored(self, angle, current_time) ==
    StartRead(CalfStretches_angle_threshold_min <= angle
                /\ angle <= CalfStretches_angle_threshold_max,
              self.start_time)

\* calf_stretches_tracker20.py lines 51-55
CalfStretches_start_read(self, angle, current_time) ==
    IF CalfStretches_angle_threshold_min <= angle
         /\ angle <= CalfStretches_angle_threshold_max
    THEN StartRead(TRUE, IF self.stage # "Holding Stretch"
                         THEN current_time ELSE self.start_time)
    ELSE StartRead(FALSE, None)

\* single_leg_balance_tracker22.py lines 55-60
SingleLegBalance_start_read(self, is_left_leg_raised, angle, current_time) ==
    IF balance_in_band(is_left_leg_raised, angle)
    THEN StartRead(TRUE, IF ~self.is_balancing
                         THEN current_time ELSE self.start_time)
    ELSE StartRead(FALSE, None)

\* cat_camel_stretch_tracker.py lines 114-127
CatCamel_start_read(self, form_correct, back_angle, current_time) ==
    IF form_correct /\ back_angle > CatCamel_angle_threshold_cat
    THEN StartRead(self.stage = "Cat", self.pose_start_time)
    ELSE IF form_correct /\ back_angle < CatCamel_angle_threshold_camel
    THEN StartRead(self.stage = "Camel", self.pose_start_time)
    ELSE StartRead(FALSE, None)

\* chair_yoga_tracker.py lines 120-125
ChairYogaTracker_start_read(self, current_pose, current_time) ==
    IF current_pose # "Initial" /\ self.stage # current_pose
    THEN StartRead(FALSE, None)
    ELSE IF current_pose # "Initial" /\ self.stage = current_pose
    THEN StartRead(TRUE, self.pose_start_time)
    ELSE StartRead(FALSE, None)

StartClasses ==
    {"CalfStretches", "SingleLegBalance", "CatCamelStretchTracker",
     "ChairYogaTracker"}

NewStart(c, t) ==
    CASE c = "CalfStretches" -> CalfStretches_init(t)
      [] c = "SingleLegBalance" -> SingleLegBalance_init(t)
      [] c = "CatCamelStretchTracker" -> CatCamelStretchTracker_init(t)
      [] c = "ChairYogaTracker" -> ChairYogaTracker_init(t)

InitStart ==
    /\ now = 0
    /\ \E c \in StartClasses : tracker = NewStart(c, now)
    /\ ret = NoReturn
    /\ obs = StartRead(FALSE, None)

CalfStartFrame ==
    /\ tracker.cls = "CalfStretches"
    /\ \E t \in HoldClockReadings, angle \in CalfAngles :
         LET new == track_stretch(tracker, angle, t)
         IN  /\ tracker' = new
             /\ now' = t
             /\ ret' = [call |-> "track_stretch", counter |-> new.counter,
                        stage |-> new.stage,
                        stretch_duration |-> new.stretch_duration,
                        angle |-> angle]
             /\ obs' = CalfStretches_start_read(tracker, angle, t)

BalanceStartFrame ==
    /\ tracker.cls = "SingleLegBalance"
    /\ \E t \in HoldClockReadings, angle \in BalanceAngles,
          raised \in BOOLEAN :
         LET new == track_balance(tracker, raised, angle, t)
         IN  /\ tracker' = new
             /\ now' = t
             /\ ret' = [call |-> "track_balance", counter |-> new.counter,
                        stage |-> new.stage,
                        balance_duration |-> new.balance_duration,
                        angle |-> angle]
             /\ obs' = SingleLegBalance_start_read(tracker, raised, angle, t)

CatCamelStartFrame ==
    /\ tracker.cls = "CatCamelStretchTracker"
    /\ tracker.counter < MaxReps
    /\ \E form_correct \in BOOLEAN, back_angle \in BackCurveAngles,
          t \in HoldClockReadings :
         LET new == track_cat_camel(tracker, form_correct, back_angle, t)
         IN  /\ tracker' = new
             /\ now' = t
             /\ ret' = [call |-> "track_cat_camel", counter |-> new.counter,
                        stage |-> new.stage, form_correct |-> form_correct]
             /\ obs' = CatCamel_start_read(tracker, form_correct, back_angle, t)

ChairYogaStartFrame ==
    /\ tracker.cls = "ChairYogaTracker"
    /\ tracker.counter < MaxReps
    /\ \E current_pose \in ChairPoses, t \in HoldClockReadings :
         LET new == ChairYogaTracker_track_chair_yoga(tracker, current_pose, t)
         IN  /\ tracker' = new
             /\ now' = t
             /\ ret' = [call |-> "track_chair_yoga", counter |-> new.counter,
                        stage |-> new.stage,
                        pose_correct |-> current_pose # "Initial"]
             /\ obs' = ChairYogaTracker_start_read(tracker, current_pose, t)

NextStart ==
    \/ CalfStartFrame
    \/ BalanceStartFrame
    \/ CatCamelStartFrame
    \/ ChairYogaStartFrame

SpecStart == InitStart /\ [][NextStart]_vars

(***************************************************************************)
(* One squat, end to end: the knee angle starts at 170, descends to 80,    *)
(* may stay there, and returns to 170, where it stays.                     *)
(***************************************************************************)
Ramp == {170, 140, 110, 90, 80}

LastAngle == tracker.angle_history[Len(tracker.angle_history)]

\* the frame of a symmetric squat of good form at knee angle a
RampFrame(a) == SquatFrame(a, a, 350, 100, 100)

FeedRamp(a, leg) ==
    LET res == analyze_squat_form(tracker, RampFrame(a))
    IN  /\ tracker' = res.self
        /\ ret' = res.ret
        /\ obs' = [Observe(obs, tracker, res.self, now, "valid",
                           FracBand(res.smoothed, DEPTH_THRESHOLD,
                                    UP_THRESHOLD))
                     EXCEPT !.leg = leg]
        /\ UNCHANGED now

Settled == tracker.angle_history = <<170, 170, 170, 170, 170>>

DescentStart ==
    /\ obs.leg = "none"
    /\ FeedRamp(170, "descent")

Descend ==
    /\ obs.leg = "descent"
    /\ \E a \in Ramp : a <= LastAngle /\ FeedRamp(a, "descent")

Ascend ==
    /\ \/ obs.leg = "descent" /\ LastAngle = 80
       \/ obs.leg = "ascent" /\ ~Settled
    /\ \E a \in Ramp : a >= LastAngle /\ FeedRamp(a, "ascent")

NextDescent == DescentStart \/ Descend \/ Ascend

SpecDescent == InitSquat /\ [][NextDescent]_vars

(***************************************************************************)
(* Properties.                                                             *)
(***************************************************************************)
\* every counter of a tracker, by name
Counters(t) ==
    IF t.cls = "ChairYoga"
    THEN [counter_right |-> t.counter_right, counter_left |-> t.counter_left]
    ELSE IF t.cls = "FingerToThumb" THEN t.counters
    ELSE IF t.cls = "Backend" THEN [k \in {} |-> 0]
    ELSE [counter |-> t.counter]

\* the frame just taken completed the transition the tracker counts
QualifyingTransition ==
    IF tracker.cls = "ImprovedSquatTracker"
    THEN tracker.stage = "down" /\ tracker'.stage = "up"
    ELSE IF tracker.cls = "FootFlexes"
    THEN tracker.stage = "Curled" /\ tracker'.stage = "Extended"
    ELSE IF tracker.cls = "FingerToThumb"
    THEN \A f \in Fingers :
            tracker'.counters[f] > tracker.counters[f]
                => tracker.stages[f] = "Touching" /\ tracker'.stages[f] = "Open"
    ELSE TRUE

\* C1: within a session no frame lowers a rep counter or raises it by more
\* than 1, and the squat, foot flex and finger-to-thumb counters rise only on
\* a frame that completes the counted transition.
C1_CounterStepsByOne ==
    [][ /\ \A k \in DOMAIN Counters(tracker) :
             Counters(tracker')[k] - Counters(tracker)[k] \in {0, 1}
        /\ (\E k \in DOMAIN Counters(tracker) :
               Counters(tracker')[k] > Counters(tracker)[k])
             => QualifyingTransition ]_vars

\* two foot flex cycles completed inside one debounce window, one counted
C1_Witness ==
    /\ tracker.cls = "FootFlexes"
    /\ tracker.counter = 1
    /\ obs.cycles = 2
    /\ now - tracker.last_update <= TicksPerSec

\* C2: the squat counter equals the number K of full up->down->up cycles
\* the smoothed knee angle has performed.
C2_SquatCountsCycles ==
    tracker.cls = "ImprovedSquatTracker" => tracker.counter = obs.cycles

\* C3: after one descent of the knee angle from 170 to 80 and its return
\* to 170, the smoothed angle having passed below 90, the squat tracker has
\* counted exactly 1 rep and its stage is "up".
C3_OneSquatOneRep ==
    (tracker.cls = "ImprovedSquatTracker" /\ obs.leg = "ascent" /\ Settled
        /\ obs.cycles = 1)
      => (tracker.counter = 1 /\ tracker.stage = "up")

\* every two clock readings of rep_times are more than one second apart
RepsSpaced ==
    \A i, j \in 1 .. Len(obs.rep_times) :
        i < j => obs.rep_times[j] - obs.rep_times[i] > TicksPerSec

\* C4: every foot flex cycle (angle below 140, then above 160) having
\* completed more than 1 s after the previous counted rep, the counter
\* equals the number K of cycles.
C4_FootFlexCountsCycles ==
    (tracker.cls = "FootFlexes" /\ obs.spaced)
      => tracker.counter = obs.cycles

\* C5: in FootFlexes, SeatedMarching and CoreStrengthening.track_bird_dog
\* any two increments of the counter are more than 1 s apart.
C5_IncrementsSpaced ==
    tracker.cls \in {"FootFlexes", "SeatedMarching", "CoreStrengthening"}
      => RepsSpaced

\* two counted foot flex reps
C5_Witness ==
    /\ tracker.cls = "FootFlexes"
    /\ Len(obs.rep_times) = 2
    /\ tracker.counter = 2

\* C6: in ImprovedSquatTracker and ChairYoga no rep is counted within 1 s
\* of the last counted one.
C6_SquatChairYogaDebounced ==
    tracker.cls \in {"ImprovedSquatTracker", "ChairYoga"} => RepsSpaced

\* C7: a frame whose signal lies strictly between the two thresholds leaves
\* the stage of ImprovedSquatTracker and of track_bird_dog as it was.
C7_StageHeldInGap ==
    [][ (tracker.cls \in {"ImprovedSquatTracker", "CoreStrengthening"}
           /\ obs'.frame = "valid" /\ obs'.band = "gap")
          => tracker'.stage = tracker.stage ]_vars

\* the counts a call returned, by name
ReturnedCounts(r) ==
    IF r.call = "analyze_squat_form" THEN [counter |-> r.rep_count]
    ELSE IF r.call = "track_grip" THEN [counter |-> r.counter]
    ELSE r.counters

\* C8: a frame without (enough) landmarks leaves the stored counters of
\* ImprovedSquatTracker, GripStrengthening and FingerToThumb as they were,
\* and the call returns the counts the session had before the frame.
C8_NoDetectionKeepsCount ==
    [][ (tracker.cls \in {"ImprovedSquatTracker", "GripStrengthening",
                          "FingerToThumb"}
           /\ obs'.frame = "no_pose")
          => /\ Counters(tracker') = Counters(tracker)
             /\ ReturnedCounts(ret') = Counters(tracker) ]_vars

\* a no-hand frame after a counted squeeze
C8_Witness ==
    /\ tracker.cls = "GripStrengthening"
    /\ obs.frame = "no_pose"
    /\ tracker.counter >= 1
    /\ ret.counter = tracker.counter

NoDetectionStages == {"rest", "no-detection"}

\* C9: an empty or insufficient frame yields a no-detection stage, exactly
\* one warning and, where a confidence is reported, confidence 0.
C9_NoDetectionResult ==
    (obs.frame = "no_pose"
       /\ ret.call \in {"analyze_squat_form",
                        "process_frame_for_pose_analysis"})
      => /\ ret.stage \in NoDetectionStages
         /\ Len(ret.warnings) = 1
         /\ (ret.call = "process_frame_for_pose_analysis"
               => ret.confidence = 0)

\* the form score a call returned
ReturnedScore(r) ==
    IF r.call = "analyze_squat_form" THEN r.form_score ELSE r.formScore

\* C10: the form score returned for a frame by analyze_squat_form, by the
\* backend's frame analysis, or by analyze_exercise_form is in [0, 100].
C10_ScoreInRange ==
    ret.call \in {"analyze_squat_form", "process_frame_for_pose_analysis",
                  "analyze_exercise_form"}
      => (ReturnedScore(ret) >= 0 /\ ReturnedScore(ret) <= 100)

\* the depth bonus on a frame without penalty: 105 before the clamp
C10_Witness ==
    /\ ret.call = "analyze_squat_form"
    /\ ret.form_score = 100
    /\ ret.warnings = <<"Perfect form!", "Excellent depth!",
                        "Good leg symmetry!", "Great posture!">>

\* the headline the score bands prescribe
BandHeadline(score) ==
    CASE score >= 90 -> "Perfect form!"
      [] score >= 80 /\ score < 90 -> "Great form!"
      [] score >= 70 /\ score < 80 -> "Good form, minor adjustments needed"
      [] score < 70 -> "Focus on form improvements"

\* C11: for a frame with a detected pose, the first warning returned by
\* analyze_squat_form and by the backend's squat analysis is the headline
\* of the band the returned (clamped) score lies in: >= 90 "Perfect form",
\* >= 80 "Great form", >= 70 "Good form, minor adjustments needed",
\* otherwise "Focus on form improvements".
C11_HeadlineMatchesBand ==
    (obs.frame = "valid"
       /\ ret.call \in {"analyze_squat_form",
                        "process_frame_for_pose_analysis"})
      => /\ Len(ret.warnings) >= 1
         /\ ret.warnings[1] = BandHeadline(ReturnedScore(ret))

\* a backend frame scored exactly 80, on the edge of the "Great form" band
C11_Witness ==
    /\ obs.frame = "valid"
    /\ ret.call = "process_frame_for_pose_analysis"
    /\ ret.formScore = 80
    /\ ret.warnings[1] = "Great form!"

\* the last n elements of a sequence
Recent(s, n) == SubSeq(s, Len(s) - n + 1, Len(s))

\* the samples a window of history_size holds after the pushes so far
Window == Recent(obs.pushed, Min2(Len(obs.pushed), history_size))

\* C12: after any sequence of smooth_angle calls angle_history holds at
\* most history_size (5) samples, and they are the most recently pushed
\* ones, in the order they arrived.
C12_BufferHoldsRecent ==
    /\ Len(tracker.angle_history) <= 5
    /\ tracker.angle_history = Window

\* more samples pushed than the window holds, the oldest one evicted
C12_Witness ==
    /\ Len(obs.pushed) > history_size
    /\ Len(tracker.angle_history) = history_size
    /\ obs.pushed[1] # tracker.angle_history[1]

C14_DegenerateAngleIs180 ==
    /\ (ret.call = "calculate_angle" /\ obs.degenerate)
         => ret.value = Deg(180)
    /\ \A i \in DOMAIN tracker.angle_history :
         ~tracker.angle_history[i].nan

\* r is a (score, warnings, stage, rep_count) result
IsResult(r) ==
    \/ /\ {"form_score", "warnings", "stage", "rep_count"} \subseteq DOMAIN r
       /\ r.form_score \in 0 .. 100
       /\ Len(r.warnings) >= 1
       /\ r.stage \in {"up", "down", "transition"}
       /\ r.rep_count \in Nat
    \/ /\ {"formScore", "warnings", "stage", "currentRep"} \subseteq DOMAIN r
       /\ r.formScore \in 0 .. 100
       /\ Len(r.warnings) >= 1
       /\ r.stage \in {"up", "down", "hold", "rest"}
       /\ r.currentRep \in Nat

\* C15: for any landmark input (none, too few, malformed, partially
\* visible, complete) analyze_squat_form and the backend's squat analysis
\* return a (score, warnings, stage, rep_count) result; no frame makes them
\* raise.
C15_AnalysisIsTotal ==
    (ret.call \in {"analyze_squat_form", "process_frame_for_pose_analysis"}
       /\ obs.frame \in {"valid", "no_pose", "malformed"})
      => IsResult(ret)

\* the except branch of analyze_squat_form answered a malformed frame
C15_Witness ==
    /\ tracker.cls = "ImprovedSquatTracker"
    /\ obs.frame = "malformed"
    /\ ret.form_score = 50
    /\ ret.stage = "up"

\* the hold a tracker of a duration-gated class requires, in seconds
MinHold(c) ==
    IF c = "CalfStretches" THEN 20 ELSE 10

\* C16: CalfStretches (20 s), SingleLegBalance (10 s) and SingleLegStand
\* (10 s) count a hold only on a frame inside the target band, the signal
\* having been inside the band on every frame for at least the minimum
\* hold time up to that frame; a frame outside the band ends the run, and
\* the time held before it earns no credit.
C16_HoldCountedAfterFullDuration ==
    obs.counted => /\ obs.in_band
                   /\ obs.held_for >= MinHold(tracker.cls)

\* a calf stretch counted after a hold of 20 s that began after the
\* session's first second
C16_Witness ==
    /\ tracker.cls = "CalfStretches"
    /\ obs.counted
    /\ tracker.counter = 1
    /\ obs.held_for >= 20
    /\ now > obs.held_for

\* the fixed cyclic order of the phases and the duration of each, in
\* seconds
PhaseAfter(c, p) ==
    IF c = "BreathingExercise"
    THEN CASE p = "inhale" -> "hold" [] p = "hold" -> "exhale"
           [] p = "exhale" -> "inhale"
    ELSE CASE p = "Rest" -> "Contract" [] p = "Contract" -> "Release"
           [] p = "Release" -> "Rest"

PhaseLength(c, p) ==
    IF c = "BreathingExercise" THEN 4
    ELSE IF p = "Rest" THEN 2 ELSE 3

FirstPhase(c) == IF c = "BreathingExercise" THEN "inhale" ELSE "Rest"

\* C17: BreathingExercise (inhale, hold, exhale) and PelvicFloorExercises
\* (Rest, Contract, Release) leave a phase only when the time spent in it
\* is at least its duration, enter the next phase of the fixed cyclic
\* order, and raise the cycle counter by exactly 1 exactly on the change
\* that wraps back to the first phase.
C17_PhasesAdvanceInOrder ==
    [][ (tracker.cls \in {"BreathingExercise", "PelvicFloorExercises"}
           /\ PhaseOf(tracker) # "None")
          => LET c == tracker.cls
                 p == PhaseOf(tracker)
                 q == PhaseOf(tracker')
             IN  /\ q # p => /\ now' - obs.entered >= PhaseLength(c, p)
                             /\ q = PhaseAfter(c, p)
                 /\ CyclesOf(tracker') - CyclesOf(tracker) =
                       IF q # p /\ q = FirstPhase(c) THEN 1 ELSE 0 ]_vars

\* a breathing cycle completed: inhale, hold, exhale and inhale again
C17_Witness ==
    /\ tracker.cls = "BreathingExercise"
    /\ tracker.cycle_count = 1
    /\ tracker.phase = "inhale"
    /\ obs.changes = 3

\* C18: AlternateNostrilBreathing.track_breathing_cycle goes through the
\* eight phases Inhale Right, Hold Right, Exhale Left, Hold Left, Inhale
\* Left, Hold Left, Exhale Right, Hold Right in that order: after n phase
\* changes it is in phase n mod 8 of the sequence, and cycle_counter is the
\* number of times the sequence has wrapped back to phase 0.
C18_EightPhasesInOrder ==
    tracker.cls = "AlternateNostrilBreathing"
      => /\ tracker.breathing_phase = cycle_sequence[(obs.changes % 8) + 1]
         /\ tracker.cycle_counter = obs.changes \div 8

\* C19: a freshly constructed PrenatalYoga tracker in a breathing session,
\* polled with track_breathing as time advances, eventually counts a
\* breathing cycle.
C19_BreathingCounterRises ==
    <>(tracker.exercise_type = "breathing" => tracker.counter > 0)

\* the stage and the counter of the finger the observer follows
StageOf(t) == IF t.cls = "FingerToThumb" THEN t.stages["Index"] ELSE t.stage

LastUpdateOf(t) ==
    IF t.cls = "FingerToThumb" THEN t.last_update["Index"] ELSE t.last_update

\* C20: in FingerToThumb (index finger) and GripStrengthening no stage is
\* terminal, whatever no-detection frames came before: a valid frame with
\* the tips together puts the tracker in its touching stage, and a valid
\* frame with the tips apart, taken in the touching stage more than 0.5 s
\* after the last counted rep, changes the stage and raises the counter.
C20_CycleCountsAfterNoDetection ==
    [][ (tracker.cls \in {"FingerToThumb", "GripStrengthening"}
           /\ obs'.frame = "valid")
          => /\ obs'.band = "touch"
                  => StageOf(tracker') \in {"Touching", "Squeezing"}
             /\ (obs'.band = "apart"
                   /\ StageOf(tracker) \in {"Touching", "Squeezing"}
                   /\ 2 * (now' - LastUpdateOf(tracker)) > TicksPerSec)
                  => /\ StageOf(tracker') # StageOf(tracker)
                     /\ Count(tracker') = Count(tracker) + 1 ]_vars

\* C21: in SeatedMarching, between any two consecutive increments of counter
\* the right knee and the left knee have each been raised and lowered once:
\* the interval closed by the second or a later increment holds one lift of
\* each knee.
C21_OneRepPerAlternatingPair ==
    tracker.counter >= 2 => obs.credited = [right |-> 1, left |-> 1]

\* C22: after reset_session() the squat tracker answers every subsequent
\* frame sequence as a freshly constructed tracker does: each call returns
\* the (score, warnings, stage, rep_count) the fresh tracker returns.
C22_ResetEqualsFresh ==
    obs.reset => ret = obs.twin_ret

\* a tracker that had analysed frames was reset and analysed frames again
C22_Witness ==
    /\ obs.reset /\ obs.used
    /\ obs.post >= 2
    /\ ret.call = "analyze_squat_form"

\* the last request named an exercise type that is not in the catalog
UnknownTypeRequested ==
    /\ obs.endpoint # "none"
    /\ obs.exercise_type \notin get_exercise_configurations

\* the last request started no processing and created no temp file
NothingStarted ==
    /\ obs.outcome.temp_files = 0
    /\ obs.outcome.videos = 0
    /\ obs.outcome.frames = 0

\* C23 as stated: a request naming an exercise type that is not in the
\* catalog is answered 400 by analyze-frame and analyze-video and 404 by
\* exercise-config, before any processing starts or temp file is created.
C23_UnknownTypeRejected ==
    UnknownTypeRequested =>
        /\ ret.status = IF obs.endpoint = "get_exercise_config"
                        THEN 404 ELSE 400
        /\ NothingStarted

\* C23 as amended: such a request starts no processing and creates no temp
\* file; it is answered 400 by analyze-frame, 404 by exercise-config, and by
\* analyze-video 400 when the caller is authenticated and 401 when not.
C23_UnknownTypeRejectedAtBoundary ==
    UnknownTypeRequested =>
        /\ NothingStarted
        /\ ret.status =
             IF obs.endpoint = "get_exercise_config" THEN 404
             ELSE IF obs.endpoint = "analyze_video"
                     /\ obs.credentials # "valid" THEN 401
             ELSE 400

\* an authenticated analyze-video request naming an unknown type came after
\* a request that was processed
C23_Witness ==
    /\ UnknownTypeRequested
    /\ obs.endpoint = "analyze_video" /\ obs.credentials = "valid"
    /\ ret.status = 400
    /\ tracker.temp_files > 0 /\ tracker.videos > 0

\* C24: across the successive frames of one session submitted to the
\* frame-analysis interface, the reported currentRep never decreases.
C24_CurrentRepNonDecreasing ==
    [][(/\ ret.call = "process_frame_for_pose_analysis"
        /\ ret'.call = "process_frame_for_pose_analysis")
       => ret'.currentRep >= ret.currentRep]_vars

\* C25: when the clock read by consecutive frames goes backwards, no rep is
\* counted twice (a frame raises the counter by at most 1 and the counter
\* never exceeds the qualifying transitions seen so far) and the smoothing
\* buffer stays within its window.
C25_BackwardClockSafe ==
    /\ obs.rise \in {0, 1}
    /\ tracker.cls \in {"FootFlexes", "CalfStretches"}
         => tracker.counter <= obs.transitions
    /\ tracker.cls = "ImprovedSquatTracker"
         => Len(tracker.angle_history) <= history_size

\* a rep counted by a frame that read an earlier time than the frame before;
\* a full smoothing buffer after the clock went backwards
C25_Witness ==
    \/ /\ tracker.cls = "FootFlexes"
       /\ obs.went_back /\ obs.rise = 1 /\ tracker.counter = MaxReps
    \/ /\ tracker.cls = "ImprovedSquatTracker"
       /\ obs.went_back /\ Len(tracker.angle_history) = history_size

\* C26: in AnkleCircles, the frame that completes a full circle (the stage
\* is Backward after Forward, and the right-leg angle is above 160 again)
\* more than 1 s after the last counted circle increments counter by
\* exactly 1 and leaves the stage at Forward.
C26_AnkleCircleCounted ==
    [][ (/\ tracker.cls = "AnkleCircles"
         /\ tracker.stage = "Backward"
         /\ ret'.call = "track_ankle_circles"
         /\ obs'.angle_right > AnkleCircles_angle_threshold_forward
         /\ now' - tracker.last_counter_update > 1)
        => /\ tracker'.counter = tracker.counter + 1
           /\ tracker'.stage = "Forward" ]_vars

\* C27: in WallPushUpsTracker and PelvicTiltsTracker, the form check passing,
\* the frame that completes Up->Down->Up (Neutral->Tilted->Neutral) more than
\* 1 s after the last count increments the counter by exactly 1.
C27_PushUpAndTiltCounted ==
    [][ (/\ \/ /\ tracker.cls = "WallPushUpsTracker"
               /\ tracker.stage = "Down"
               /\ obs'.angle_left > WallPushUps_angle_threshold_up
               /\ obs'.angle_right > WallPushUps_angle_threshold_up
            \/ /\ tracker.cls = "PelvicTiltsTracker"
               /\ tracker.stage = "Tilted"
               /\ obs'.angle_left > PelvicTilts_angle_threshold_neutral
               /\ obs'.angle_right > PelvicTilts_angle_threshold_neutral
         /\ ret' # ret
         /\ obs'.form_correct
         /\ now' - tracker.last_counter_update > 1)
        => tracker'.counter = tracker.counter + 1 ]_vars

\* C28: in BackExtensions.track_extension and PrenatalYoga.track_pelvic_tilt,
\* the stage being Lifted (Tilted), a frame whose angle lies in the return
\* band (150, 170] moves the stage to Lowering (Returning) and, more than
\* 1 s after the last count, counts one rep.
C28_ReturnBandCounts ==
    [][ (/\ tracker.cls \in {"BackExtensions", "PrenatalYoga"}
         /\ tracker.stage \in {"Lifted", "Tilted"}
         /\ ret'.call \in {"track_extension", "track_pelvic_tilt"}
         /\ obs'.angle_right > BackExtensions_angle_threshold_min
         /\ obs'.angle_right <= BackExtensions_angle_threshold_max)
        => /\ tracker'.stage \in {"Lowering", "Returning"}
           /\ now' - tracker.last_update > 1
                => tracker'.counter = tracker.counter + 1 ]_vars

\* C29: in CatCamelStretchTracker and ChairYogaTracker one continuous hold
\* of a single pose, with no excursion out of it, adds at most 1 to counter
\* however long it lasts.
C29_OneCountPerHold ==
    tracker.cls \in {"CatCamelStretchTracker", "ChairYogaTracker"}
      => obs.run_counts <= 1

\* C30: HathaYogaTracker increments counter for a pose only after that pose
\* has been detected continuously for at least 2 seconds.
C30_PoseHeldTwoSeconds ==
    (tracker.cls = "HathaYogaTracker" /\ obs.counted)
      => now - obs.since >= HathaYoga_pose_debounce

\* C31: a hip-knee distance that oscillates within a narrow band around one
\* value never makes the backend's reported stage alternate between "up"
\* and "down", so counting a rep on each down->up change of the reported
\* stage yields no rep from such jitter.
C31_NoRepFromJitter ==
    /\ obs.stages # {"up", "down"}
    /\ tracker.rep_count = 0

\* C32: once YogaBreathing has finished its 30-frame calibration the
\* thresholds form a well-ordered band, distance_threshold_max >
\* distance_threshold_min, whatever the calibration samples were, and
\* breath_counter is unchanged (still 0) by the calibration frames.
C32_CalibratedBandOrdered ==
    /\ tracker.frame_count = YogaBreathing_calibration_frames
         => tracker.distance_threshold_max > tracker.distance_threshold_min
    /\ obs.frame = "calibration" => tracker.breath_counter = 0

\* C33: when analyze_video or validate_video_upload has finished, by
\* returning or by raising, no temp file made for that request is left on
\* disk and none of its paths is left in video_handler.temp_files.
C33_NoTempFileLeft ==
    (At("loop", "idle") /\ ret.call \in {"analyze_video",
                                         "validate_video_upload"})
        => /\ \A f \in tracker.disk : f.path.n # tracker.requests
           /\ \A path \in tracker.temp_files : path.n # tracker.requests

\* every name a temp file of a request can have
TempPaths ==
    {[n |-> n, suffix |-> s, compressed |-> c] :
        n \in 1 .. MaxFairRequests, s \in {".mp4", ".avi"}, c \in BOOLEAN}

Stale(path) ==
    /\ path \in tracker.temp_files
    /\ \/ ~exists(tracker, path)
       \/ mtime_age(tracker, path) > CleanupCutoff

\* C34: the background cleanup thread never terminates, it starts pass after
\* pass, and a pass deletes and untracks each tracked temp file older than 2
\* hours and untracks each tracked path whose file no longer exists: every
\* path in temp_files whose file is older than 2 hours or gone is eventually
\* removed from temp_files.
C34_StaleEventuallyUntracked ==
    /\ []<>At("cleaner", "snap_copy")
    /\ \A path \in TempPaths : Stale(path) ~> path \notin tracker.temp_files

\* the cleaner has deleted a file older than 2 hours and untracked its path
C34_Witness ==
    /\ At("cleaner", "cf_unlock")
    /\ obs = [thread |-> "cleaner", op |-> "discard", holder |-> "cleaner"]
    /\ ~exists(tracker, tracker.threads.cleaner.file_path)

\* the places where a thread enters a with self._cleanup_lock block, and the
\* places inside one
AcquirePcs ==
    {"save_lock", "compress_lock", "cf_lock", "all_lock", "snap_lock",
     "gone_lock"}

HeldPcs ==
    {"save_add", "save_unlock", "compress_add", "compress_unlock",
     "cf_discard", "cf_unlock", "all_copy", "all_unlock", "snap_copy",
     "snap_unlock", "gone_discard", "gone_unlock"}

\* C35: every read and every mutation of VideoFileHandler.temp_files happens
\* while the accessing thread holds _cleanup_lock.
C35_AccessUnderLock == obs.op # "none" => obs.holder = obs.thread

\* the cleaner discards a path under the lock while the event loop waits
\* for the lock
C35_Witness ==
    /\ obs = [thread |-> "cleaner", op |-> "discard", holder |-> "cleaner"]
    /\ tracker.threads.loop.pc \in AcquirePcs

\* C36: no thread tries to acquire the non-reentrant _cleanup_lock while it
\* holds it, the holder of the lock is inside a with block (from where its
\* release is the next thing it does), and the interleavings of
\* save_uploaded_video, compress_video, cleanup_file, cleanup_all_temp_files
\* and the cleanup thread are deadlock-free: whenever a thread waits for the
\* lock, some thread can take a step.
C36_LockDisciplineDeadlockFree ==
    /\ \A th \in {"loop", "cleaner"} :
         /\ tracker.threads[th].pc \in AcquirePcs
              => tracker._cleanup_lock # th
         /\ tracker._cleanup_lock = th <=> tracker.threads[th].pc \in HeldPcs
    /\ (\E th \in {"loop", "cleaner"} : tracker.threads[th].pc \in AcquirePcs)
         => ENABLED (LoopStep \/ CleanerStep)

\* the cleaner waits for the lock that the event loop holds while it clears
\* a non-empty temp_files
C36_Witness ==
    /\ tracker._cleanup_lock = "loop"
    /\ At("loop", "all_unlock")
    /\ tracker.threads.loop.files # {}
    /\ tracker.threads.cleaner.pc \in AcquirePcs

\* C37: a frame without a detection leaves every field of
\* ImprovedSquatTracker as it was (counter, stage, previous_stage,
\* rep_in_progress, angle_history, form_score, warnings): the tracker always
\* equals the twin that never saw such frames, and every detected frame
\* returns what the twin returns for it.
C37_NoPoseFrameLeavesNoTrace ==
    /\ tracker = obs.twin
    /\ obs.last = "detected" => ret = obs.twin_ret

\* a frame without a detection came while a repetition was in progress, and
\* detected frames have since brought the tracker back up with a full window
C37_Witness ==
    /\ obs.in_rep
    /\ obs.last = "detected"
    /\ tracker.stage = "up" /\ tracker.previous_stage = "transition"
    /\ Len(tracker.angle_history) = history_size

\* C38: in SeatedMarching, right_knee_raised and left_knee_raised are never
\* both true at the same time.
C38_NeverBothKneesRaised ==
    ~(tracker.right_knee_raised /\ tracker.left_knee_raised)

\* C39: in CalfStretches, SingleLegBalance, CatCamelStretchTracker and
\* ChairYogaTracker, whenever a frame computes a hold duration as
\* current_time minus the stored start timestamp, that timestamp has been
\* set: it is not None.
C39_StartSetWhenSubtracted == obs.computed => obs.start # None

\* a second calf stretch is being timed after a counted one had put
\* start_time back to None
C39_Witness ==
    /\ tracker.cls = "CalfStretches"
    /\ obs.computed
    /\ tracker.counter > 0
    /\ tracker.stage = "Holding Stretch"

====
